---- MODULE Spec2Model ----
(***************************************************************************)
(* Model of the order lifecycle manager of citadel-bot                     *)
(* (src/order_manager.py) together with the venue it talks to              *)
(* (src/RotmanInteractiveTraderApi.py, as exercised by the FakeClient of   *)
(* src/tests/test_order_manager.py).                                       *)
(*                                                                         *)
(* Time is an integer clock `now` (time.time()); quantities are integers.  *)
(* The limit price takes part in no decision of the manager and is left    *)
(* out of the records.                                                     *)
(*                                                                         *)
(* The second part models the portfolio allocator (src/allocator.py) in    *)
(* exact rational arithmetic.                                              *)
(***************************************************************************)
EXTENDS Integers, Sequences, FiniteSets, TLC

\* ---------------------------------------------------------------- bounds
MaxOrders == 2      \* order ids the venue hands out in one behaviour
MaxQty    == 2      \* largest order quantity
MaxTime   == 1      \* last value of the clock

\* ------------------------------------------------- configuration / enums
\* OrderManager(cancel_cooldown_s, unknown_order_ttl_s), in units of the
\* clock: a cancel sent within the current unit is within the cooldown, and
\* an order created before the current unit is older than the TTL.
CancelCooldown  == 1
UnknownOrderTtl == 0

Tickers == {"AAA", "BBB"}
BUY  == "BUY"
SELL == "SELL"
OrderAction == {BUY, SELL}

OPEN       == "OPEN"
CANCELLED  == "CANCELLED"
TRANSACTED == "TRANSACTED"
OrderStatus == {OPEN, CANCELLED, TRANSACTED}

SENT        == "SENT"
LIVE        == "LIVE"
CANCEL_SENT == "CANCEL_SENT"
DONE        == "DONE"
LocalState == {SENT, LIVE, CANCEL_SENT, DONE}

NoTime == -1        \* t_cancel_sent = None
NoId   == 0         \* response without "order_id"

VARIABLES
    orders,     \* OrderManager._orders : order_id -> TrackedOrder
    venue,      \* the venue's book     : order_id -> order record
    nextId,     \* the venue's next order id
    now,        \* time.time()
    last,       \* the manager call of the step just taken: inputs, venue calls, result
    doneLog,    \* history: order ids refresh() has marked DONE
    evicted,    \* history: order ids refresh() dropped as unknown (zombies)
    cancelLog,  \* history: order_id -> why the latest cancel for it was sent
    lastCancel, \* history: ticker -> time of the latest cancel sent for it
    self,       \* the Allocator: its config and its fields
    ret         \* the allocator call of the step just taken: inputs and result

vars == <<orders, venue, nextId, now, last, doneLog, evicted, cancelLog, lastCancel,
          self, ret>>

\* the variables of the allocator
allocVars == <<self, ret>>

\* no Allocator has been constructed
NoAllocator == [op |-> "none"]

\* ------------------------------------------------------------- utilities
Max(a, b) == IF a >= b THEN a ELSE b

Min(a, b) == IF a <= b THEN a ELSE b

SetMax(S) == CHOOSE x \in S : \A y \in S : y <= x

SetMin(S) == CHOOSE x \in S : \A y \in S : x <= y

\* dict.get(k, default) for a function
Get(f, k, d) == IF k \in DOMAIN f THEN f[k] ELSE d

\* d[k] = v  on a function used as a dict
Put(f, k, v) == [x \in (DOMAIN f) \cup {k} |-> IF x = k THEN v ELSE f[x]]

\* {} as a dict
EmptyDict == [x \in {} |-> 0]

\* del d[k] for every k in S
Del(f, S) == [x \in (DOMAIN f) \ S |-> f[x]]

\* the keys of a dict in insertion order; ids are handed out ascending and
\* inserted by submit() in that order
RECURSIVE KeysInOrder(_)
KeysInOrder(S) ==
    IF S = {} THEN <<>>
    ELSE LET m == SetMin(S) IN <<m>> \o KeysInOrder(S \ {m})

\* ---------------------------------------------------------- TrackedOrder
remaining(tr) == Max(0, tr.quantity - tr.quantity_filled)

signed_remaining(tr) ==
    LET sign == IF tr.side = BUY THEN 1 ELSE -1
    IN  sign * remaining(tr)

TrackedOrder(oid, ticker, side, quantity, t, filled, status) ==
    [order_id |-> oid, ticker |-> ticker, side |-> side, quantity |-> quantity,
     t_created |-> t, t_cancel_sent |-> NoTime, state |-> SENT,
     quantity_filled |-> filled, status |-> status]

\* ------------------------------------------------------------- the venue
\* client.get_orders(status): the ids the venue lists under that status;
\* hidden are the orders the venue does not list in this round of queries
get_orders(v, hidden, status) ==
    {oid \in DOMAIN v : oid \notin hidden /\ v[oid].status = status}

\* ------------------------------------------------------------- refresh()
Unknown(v, hidden, oid) ==
    /\ oid \notin get_orders(v, hidden, OPEN)
    /\ oid \notin get_orders(v, hidden, CANCELLED)
    /\ oid \notin get_orders(v, hidden, TRANSACTED)

\* RefreshOne that keeps the local fill of an order found transacted
RefreshOneStaleFill(tr, v, hidden) ==
    LET oid == tr.order_id IN
    IF oid \in get_orders(v, hidden, OPEN) THEN
        [tr EXCEPT !.status = OPEN, !.quantity_filled = v[oid].quantity_filled,
                   !.state = LIVE]
    ELSE IF oid \in get_orders(v, hidden, CANCELLED) THEN
        [tr EXCEPT !.status = CANCELLED, !.quantity_filled = v[oid].quantity_filled,
                   !.state = DONE]
    ELSE IF oid \in get_orders(v, hidden, TRANSACTED) THEN
        [tr EXCEPT !.status = TRANSACTED, !.state = DONE]
    ELSE tr

\* body of the loop over self._orders for the three buckets
RefreshOne(tr, v, hidden) ==
    LET oid == tr.order_id IN
    IF oid \in get_orders(v, hidden, OPEN) THEN
        [tr EXCEPT !.status = OPEN, !.quantity_filled = v[oid].quantity_filled,
                   !.state = LIVE]
    ELSE IF oid \in get_orders(v, hidden, CANCELLED) THEN
        [tr EXCEPT !.status = CANCELLED, !.quantity_filled = v[oid].quantity_filled,
                   !.state = DONE]
    ELSE IF oid \in get_orders(v, hidden, TRANSACTED) THEN
        [tr EXCEPT !.status = TRANSACTED, !.quantity_filled = v[oid].quantity_filled,
                   !.state = DONE]
    ELSE tr

\* Zombies with the TTL compared by >= : an order is dropped at its TTL
ZombiesAtTtl(ords, v, hidden, t) ==
    {oid \in DOMAIN ords :
        Unknown(v, hidden, oid) /\ (t - ords[oid].t_created) >= UnknownOrderTtl}

\* unknown to every query and older than the TTL: deleted in the loop
Zombies(ords, v, hidden, t) ==
    {oid \in DOMAIN ords :
        Unknown(v, hidden, oid) /\ (t - ords[oid].t_created) > UnknownOrderTtl}

\* self._orders when the first loop of refresh() is over
RefreshLoop(ords, v, hidden, t) ==
    [oid \in (DOMAIN ords) \ Zombies(ords, v, hidden, t) |->
        RefreshOne(ords[oid], v, hidden)]

\* DoneIds that leaves out the orders found transacted
DoneIdsCancelledOnly(ords) ==
    {oid \in DOMAIN ords : ords[oid].state = DONE /\ ords[oid].status = CANCELLED}

DoneIds(ords) == {oid \in DOMAIN ords : ords[oid].state = DONE}

\* refresh(): the loop, then "Drop DONE orders to keep memory bounded"
refresh(ords, v, hidden, t) ==
    LET looped == RefreshLoop(ords, v, hidden, t)
    IN  Del(looped, DoneIds(looped))

\* -------------------------------------------- what place_order() returns
\* Messages are sequences of words; the venue's two risk-limit messages and
\* the payload of a response that carries no message at all.
GrossLimitMessage ==
    <<"Order", "request", "will", "exceed", "gross", "trading", "limits", "in", "LIMIT-STOCK.">>

NetLimitMessage ==
    <<"Order", "request", "will", "exceed", "net", "trading", "limits", "in", "LIMIT-STOCK.">>

NoMessage == <<>>

\* str.lower(), word by word
LowerWord(w) ==
    CASE w = "Order"        -> "order"
      [] w = "LIMIT-STOCK." -> "limit-stock."
      [] OTHER              -> w

Lower(msg) == [i \in 1..Len(msg) |-> LowerWord(msg[i])]

\* needle in msg
Contains(needle, msg) ==
    \E i \in 1..(Len(msg) - Len(needle) + 1) :
        SubSeq(msg, i, i + Len(needle) - 1) = needle

\* the test of submit(): "exceed gross trading limits" in msg.lower()
IsRiskLimitRejection(msg) ==
    Contains(<<"exceed", "gross", "trading", "limits">>, Lower(msg))

\* how the venue may answer one place_order call
ResponseKinds == {"open", "gross", "net", "other"}

Rejections == ResponseKinds \ {"open"}

\* the response dict of place_order for an order the venue numbers oid
Response(kind, oid) ==
    CASE kind = "open"   -> [has_order_id |-> TRUE, order_id |-> oid,
                             quantity_filled |-> 0, status |-> OPEN,
                             message |-> NoMessage]
      [] kind = "gross"  -> [has_order_id |-> FALSE, order_id |-> NoId,
                             quantity_filled |-> 0, status |-> OPEN,
                             message |-> GrossLimitMessage]
      [] kind = "net"    -> [has_order_id |-> FALSE, order_id |-> NoId,
                             quantity_filled |-> 0, status |-> OPEN,
                             message |-> NetLimitMessage]
      [] OTHER           -> [has_order_id |-> FALSE, order_id |-> NoId,
                             quantity_filled |-> 0, status |-> OPEN,
                             message |-> NoMessage]

\* the venue's record of an order it accepted
VenueOrder(ticker, side, quantity, resp) ==
    [ticker |-> ticker, side |-> side, quantity |-> quantity,
     quantity_filled |-> resp.quantity_filled, status |-> resp.status]

\* ------------------------------------------ the manager's venue-call log
CancelCall(ids) == [kind |-> "cancel", ids |-> ids]

PlaceCall(ticker, side, quantity, resp) ==
    [kind |-> "place", ticker |-> ticker, side |-> side, quantity |-> quantity,
     resp |-> resp]

\* -------------------------------------------------- open_orders_for_ticker
open_orders_for_ticker(ords, ticker) ==
    {oid \in DOMAIN ords : ords[oid].ticker = ticker}

\* ------------------------------------------------------- cancel_ticker()
\* m is the manager in the middle of a call: its orders, the venue, the
\* venue calls made so far, the exception raised, and the history; why is
\* the caller's reason, kept in the history only
cancel_ticker(m, ticker, why, t) ==
    LET ids == open_orders_for_ticker(m.orders, ticker)
        hit == {oid \in ids : m.orders[oid].state # DONE}
    IN  IF ids = {} THEN m
        ELSE [m EXCEPT
                !.calls = Append(@, CancelCall(ids)),
                !.orders = [oid \in DOMAIN @ |->
                              IF oid \in hit
                              THEN [@[oid] EXCEPT !.state = CANCEL_SENT,
                                                  !.t_cancel_sent = t]
                              ELSE @[oid]],
                !.cancelLog = [oid \in (DOMAIN @) \cup ids |->
                                 IF oid \in ids THEN why ELSE @[oid]],
                !.lastCancel = [@ EXCEPT ![ticker] = t]]

\* -------------------------------------------------------------- submit()
\* submit that takes every response without order_id for a risk-limit rejection
submitAllRejectionsRisk(m, ticker, side, quantity, t) ==
    LET kind == IF m.answers = <<>> THEN "open" ELSE Head(m.answers)
        resp == Response(kind, m.nextId)
        sent == [m EXCEPT !.calls = Append(@, PlaceCall(ticker, side, quantity, resp)),
                          !.answers = IF @ = <<>> THEN @ ELSE Tail(@)]
    IN  IF ~resp.has_order_id THEN [sent EXCEPT !.outcome = "risk"]
        ELSE [sent EXCEPT
                !.orders = Put(@, resp.order_id,
                               TrackedOrder(resp.order_id, ticker, side, quantity, t,
                                            resp.quantity_filled, resp.status)),
                !.venue = Put(@, resp.order_id, VenueOrder(ticker, side, quantity, resp)),
                !.nextId = @ + 1]

\* place_order, then either an exception (m.outcome) or a new TrackedOrder;
\* m.answers is how the venue answers the place_order calls to come, an
\* exhausted list meaning that it accepts
submit(m, ticker, side, quantity, t) ==
    LET kind == IF m.answers = <<>> THEN "open" ELSE Head(m.answers)
        resp == Response(kind, m.nextId)
        sent == [m EXCEPT !.calls = Append(@, PlaceCall(ticker, side, quantity, resp)),
                          !.answers = IF @ = <<>> THEN @ ELSE Tail(@)]
    IN  IF ~resp.has_order_id THEN
            IF IsRiskLimitRejection(resp.message)
            THEN [sent EXCEPT !.outcome = "risk"]      \* OrderRejectedByRiskLimit
            ELSE [sent EXCEPT !.outcome = "error"]     \* ValueError
        ELSE [sent EXCEPT
                !.orders = Put(@, resp.order_id,
                               TrackedOrder(resp.order_id, ticker, side, quantity, t,
                                            resp.quantity_filled, resp.status)),
                !.venue = Put(@, resp.order_id, VenueOrder(ticker, side, quantity, resp)),
                !.nextId = @ + 1]

\* ---------------------------------------------- reconcile_target_orders()
\* desired is the dict as a sequence of [ticker, side, quantity] in
\* insertion order, one entry per ticker
DesiredTickers(desired) == {desired[i].ticker : i \in 1..Len(desired)}

\* CancelUndesired that leaves the orders of undesired tickers alone
CancelUndesiredKeepsAll(m, ids, desired, t) == m

\* "Cancel tickers not desired anymore": loop over list(self._orders.values())
RECURSIVE CancelUndesired(_, _, _, _)
CancelUndesired(m, ids, desired, t) ==
    IF ids = <<>> THEN m
    ELSE LET tr == m.orders[Head(ids)]
             m1 == IF tr.ticker \notin DesiredTickers(desired)
                   THEN cancel_ticker(m, tr.ticker, "undesired", t)
                   ELSE m
         IN  CancelUndesired(m1, Tail(ids), desired, t)

\* the cooldown test of the second loop
recently_cancelled(ords, ticker, t) ==
    \E oid \in DOMAIN ords :
        /\ ords[oid].ticker = ticker
        /\ ords[oid].t_cancel_sent # NoTime
        /\ (t - ords[oid].t_cancel_sent) < CancelCooldown

\* DesiredStep with the flip made in one pass: cancel, then submit at once
DesiredStepFlipNow(m, d, t) ==
    LET existing == open_orders_for_ticker(m.orders, d.ticker) IN
    IF existing # {} THEN
        IF \E oid \in existing : m.orders[oid].side # d.side
        THEN IF d.quantity <= 0 THEN cancel_ticker(m, d.ticker, "flip", t)
             ELSE submit(cancel_ticker(m, d.ticker, "flip", t), d.ticker, d.side, d.quantity, t)
        ELSE m
    ELSE IF recently_cancelled(m.orders, d.ticker, t) THEN m
    ELSE IF d.quantity <= 0 THEN m
    ELSE submit(m, d.ticker, d.side, d.quantity, t)

\* DesiredStep that waits for an opposite-side order without cancelling it
DesiredStepNoCancel(m, d, t) ==
    LET existing == open_orders_for_ticker(m.orders, d.ticker) IN
    IF existing # {} THEN m
    ELSE IF recently_cancelled(m.orders, d.ticker, t) THEN m
    ELSE IF d.quantity <= 0 THEN m
    ELSE submit(m, d.ticker, d.side, d.quantity, t)

\* DesiredStep that cancels a same-side order of another quantity
DesiredStepRequote(m, d, t) ==
    LET existing == open_orders_for_ticker(m.orders, d.ticker) IN
    IF existing # {} THEN
        IF \E oid \in existing : \/ m.orders[oid].side # d.side
                                 \/ m.orders[oid].quantity # d.quantity
        THEN cancel_ticker(m, d.ticker, "flip", t)
        ELSE m
    ELSE IF recently_cancelled(m.orders, d.ticker, t) THEN m
    ELSE IF d.quantity <= 0 THEN m
    ELSE submit(m, d.ticker, d.side, d.quantity, t)

\* DesiredStep that never submits for an instrument a cancel was sent for
DesiredStepBlocked(m, d, t) ==
    LET existing == open_orders_for_ticker(m.orders, d.ticker) IN
    IF existing # {} THEN
        IF \E oid \in existing : m.orders[oid].side # d.side
        THEN cancel_ticker(m, d.ticker, "flip", t)
        ELSE m
    ELSE IF m.lastCancel[d.ticker] # NoTime THEN m
    ELSE IF d.quantity <= 0 THEN m
    ELSE submit(m, d.ticker, d.side, d.quantity, t)

\* one iteration of "for ticker, (side, qty, price) in desired.items()"
DesiredStep(m, d, t) ==
    LET existing == open_orders_for_ticker(m.orders, d.ticker) IN
    IF existing # {} THEN
        IF \E oid \in existing : m.orders[oid].side # d.side
        THEN cancel_ticker(m, d.ticker, "flip", t)
        ELSE m
    ELSE IF recently_cancelled(m.orders, d.ticker, t) THEN m
    ELSE IF d.quantity <= 0 THEN m
    ELSE submit(m, d.ticker, d.side, d.quantity, t)

\* DesiredLoop that goes on to the next ticker after a risk-limit rejection
RECURSIVE DesiredLoopPastRisk(_, _, _)
DesiredLoopPastRisk(m, desired, t) ==
    IF desired = <<>> \/ m.outcome = "error" THEN m
    ELSE DesiredLoopPastRisk(DesiredStep(m, Head(desired), t), Tail(desired), t)

\* the second loop; a raised exception ends it ("risk" is caught and the
\* call returns, "error" propagates to the caller)
RECURSIVE DesiredLoop(_, _, _)
DesiredLoop(m, desired, t) ==
    IF desired = <<>> \/ m.outcome # "ok" THEN m
    ELSE DesiredLoop(DesiredStep(m, Head(desired), t), Tail(desired), t)

reconcile_target_orders(m, desired, t) ==
    DesiredLoop(CancelUndesired(m, KeysInOrder(DOMAIN m.orders), desired, t),
                desired, t)

\* ----------------------------------------- effective_position_adjustments()
\* AdjustLoop that stores an order's exposure instead of adding it
RECURSIVE AdjustLoopOverwrite(_, _, _)
AdjustLoopOverwrite(ords, ids, adj) ==
    IF ids = <<>> THEN adj
    ELSE LET tr == ords[Head(ids)]
             a1 == IF tr.state \in {SENT, LIVE, CANCEL_SENT}
                   THEN Put(adj, tr.ticker, signed_remaining(tr))
                   ELSE adj
         IN  AdjustLoopOverwrite(ords, Tail(ids), a1)

RECURSIVE AdjustLoop(_, _, _)
AdjustLoop(ords, ids, adj) ==
    IF ids = <<>> THEN adj
    ELSE LET tr == ords[Head(ids)]
             a1 == IF tr.state \in {SENT, LIVE, CANCEL_SENT}
                   THEN Put(adj, tr.ticker, Get(adj, tr.ticker, 0) + signed_remaining(tr))
                   ELSE adj
         IN  AdjustLoop(ords, Tail(ids), a1)

effective_position_adjustments(ords) ==
    AdjustLoop(ords, KeysInOrder(DOMAIN ords), EmptyDict)

\* ------------------------------------------------------------ the inputs
DesiredEntries ==
    [ticker : Tickers, side : OrderAction, quantity : {0, MaxQty}]

\* every dict over Tickers, in every insertion order
DesiredDicts ==
    {<<>>} \cup {<<d>> : d \in DesiredEntries}
           \cup {<<d, e>> : <<d, e>> \in {x \in DesiredEntries \X DesiredEntries :
                                            x[1].ticker # x[2].ticker}}

\* the dicts of one instrument
SingleDicts ==
    {d \in DesiredDicts : Len(d) = 1 /\ d[1].ticker = "AAA"}

\* the venue rejects the first or the second place_order of a pass, or none;
\* a rejection ends the pass, so no pass sees more than one
AnswerSeqs ==
    {<<>>} \cup {<<k>> : k \in Rejections} \cup {<<"open", k>> : k \in Rejections}

\* the entries of desired whose ticker has no tracked order: the only ones a
\* pass can reach submit() for
Submittable(ords, desired) ==
    {i \in 1..Len(desired) :
        open_orders_for_ticker(ords, desired[i].ticker) = {} /\ desired[i].quantity > 0}

\* the record of one manager call: desired and calls for a reconcile pass,
\* hidden and looped (self._orders between the two loops) for a refresh,
\* adj for the value effective_position_adjustments returned
Call(op, desired, calls, outcome, hidden, looped, adj) ==
    [op |-> op, desired |-> desired, calls |-> calls, outcome |-> outcome,
     hidden |-> hidden, looped |-> looped, adj |-> adj]

\* no manager call was made in the step: the environment moved
Idle == Call("idle", <<>>, <<>>, "ok", {}, EmptyDict, EmptyDict)

\* ------------------------------------------------------------------ Init
\* OrderManager.__init__ against a venue with no orders
Init ==
    /\ orders = EmptyDict
    /\ venue = EmptyDict
    /\ nextId = 1
    /\ now = 0
    /\ last = Idle
    /\ doneLog = {}
    /\ evicted = {}
    /\ cancelLog = EmptyDict
    /\ lastCancel = [t \in Tickers |-> NoTime]
    /\ self = NoAllocator
    /\ ret = NoAllocator

\* --------------------------------------------------------------- actions
\* the manager at the start of a call
Manager(answers) ==
    [orders |-> orders, venue |-> venue, nextId |-> nextId, calls |-> <<>>,
     outcome |-> "ok", cancelLog |-> cancelLog,
     lastCancel |-> lastCancel, answers |-> answers]

\* om.reconcile_target_orders(desired); the venue accepts the first
\* place_order calls of the pass and answers the next one as answers says
Reconcile(desired, answers) ==
    /\ Len(answers) <= Cardinality(Submittable(orders, desired))
    /\ \E m \in {reconcile_target_orders(Manager(answers), desired, now)} :
          /\ m.nextId <= MaxOrders + 1
          /\ orders' = m.orders
          /\ venue' = m.venue
          /\ nextId' = m.nextId
          /\ cancelLog' = m.cancelLog
          /\ lastCancel' = m.lastCancel
          /\ last' = Call("reconcile", desired, m.calls, m.outcome, {}, EmptyDict, EmptyDict)
          /\ UNCHANGED <<now, doneLog, evicted, self, ret>>

\* om.refresh(), the venue leaving the orders of hidden out of its lists
Refresh(hidden) ==
    /\ hidden \subseteq DOMAIN orders
    /\ \E looped \in {RefreshLoop(orders, venue, hidden, now)} :
          /\ orders' = Del(looped, DoneIds(looped))
          /\ doneLog' = doneLog \cup DoneIds(looped)
          /\ evicted' = evicted \cup Zombies(orders, venue, hidden, now)
          /\ last' = Call("refresh", <<>>, <<>>, "ok", hidden, looped, EmptyDict)
          /\ UNCHANGED <<venue, nextId, now, cancelLog, lastCancel, self, ret>>

\* om.effective_position_adjustments()
Adjustments ==
    /\ last' = Call("adjustments", <<>>, <<>>, "ok", {}, EmptyDict,
                    effective_position_adjustments(orders))
    /\ UNCHANGED <<orders, venue, nextId, now, doneLog, evicted, cancelLog, lastCancel, self, ret>>

\* the clock advances
Tick ==
    /\ now < MaxTime
    /\ now' = now + 1
    /\ last' = Idle
    /\ UNCHANGED <<orders, venue, nextId, doneLog, evicted, cancelLog, lastCancel, self, ret>>

\* the venue fills an open order, whether or not a cancel was sent: its
\* first unit, or all of it
VenueFill(oid, q) ==
    /\ oid \in DOMAIN venue
    /\ venue[oid].status = OPEN
    /\ q > venue[oid].quantity_filled
    /\ q \in {1, venue[oid].quantity}
    /\ venue' = [venue EXCEPT ![oid].quantity_filled = q,
                              ![oid].status = IF q = venue[oid].quantity
                                              THEN TRANSACTED ELSE OPEN]
    /\ last' = Idle
    /\ UNCHANGED <<orders, nextId, now, doneLog, evicted, cancelLog, lastCancel, self, ret>>

\* the venue carries out a cancel it was sent
VenueCancel(oid) ==
    /\ oid \in DOMAIN venue
    /\ oid \in DOMAIN cancelLog
    /\ venue[oid].status = OPEN
    /\ venue' = [venue EXCEPT ![oid].status = CANCELLED]
    /\ last' = Idle
    /\ UNCHANGED <<orders, nextId, now, doneLog, evicted, cancelLog, lastCancel, self, ret>>

Next ==
    \/ \E desired \in SingleDicts : Reconcile(desired, <<>>)
    \/ \E hidden \in SUBSET (1..MaxOrders) : Refresh(hidden)
    \/ Tick
    \/ \E oid \in 1..MaxOrders, q \in {1, MaxQty} : VenueFill(oid, q)
    \/ \E oid \in 1..MaxOrders : VenueCancel(oid)

Spec == Init /\ [][Next]_vars

\* Passes over both instruments, any of whose submissions the venue may
\* reject, against a venue that lists every order it has and leaves them open.
NextMulti ==
    \/ \E desired \in DesiredDicts, answers \in AnswerSeqs :
          Reconcile(desired, answers)
    \/ Refresh({})
    \/ Adjustments

SpecMulti == Init /\ [][NextMulti]_vars

\* ------------------------------------------- order books, for the queries
\* A tracked order as submit(), refresh() and cancel_ticker() leave it: open
\* at the venue, filled in part at most.
BookOrders ==
    {[order_id |-> NoId, ticker |-> t, side |-> sd, quantity |-> q, t_created |-> 0,
      t_cancel_sent |-> IF st = CANCEL_SENT THEN 0 ELSE NoTime, state |-> st,
      quantity_filled |-> f, status |-> OPEN] :
        t \in Tickers, sd \in OrderAction, q \in 1..MaxQty, f \in 0..(MaxQty - 1),
        st \in {SENT, LIVE, CANCEL_SENT}}

\* the books of n orders
Books(n) ==
    {[oid \in 1..n |-> [b[oid] EXCEPT !.order_id = oid]] :
        b \in [1..n -> {o \in BookOrders : o.quantity_filled < o.quantity}]}

\* the manager holding any book of orders its methods can build up
InitBook ==
    /\ \E n \in 0..MaxOrders : orders \in Books(n)
    /\ venue = [oid \in DOMAIN orders |->
                  [ticker |-> orders[oid].ticker, side |-> orders[oid].side,
                   quantity |-> orders[oid].quantity,
                   quantity_filled |-> orders[oid].quantity_filled, status |-> OPEN]]
    /\ nextId = Cardinality(DOMAIN orders) + 1
    /\ now = 0
    /\ last = Idle
    /\ doneLog = {}
    /\ evicted = {}
    /\ cancelLog = [oid \in {o \in DOMAIN orders : orders[o].state = CANCEL_SENT} |->
                       "undesired"]
    /\ lastCancel = [t \in Tickers |->
                       IF \E oid \in DOMAIN orders : /\ orders[oid].ticker = t
                                                     /\ orders[oid].state = CANCEL_SENT
                       THEN 0 ELSE NoTime]
    /\ self = NoAllocator
    /\ ret = NoAllocator

NextBook == Adjustments

SpecBook == InitBook /\ [][NextBook]_vars

\* ================================================================ claims
\* what the call log of a manager call says
PlacedFor(call, ticker) ==
    \E k \in 1..Len(call.calls) :
        call.calls[k].kind = "place" /\ call.calls[k].ticker = ticker

AcceptedFor(call, ticker, side) ==
    \E k \in 1..Len(call.calls) :
        /\ call.calls[k].kind = "place"
        /\ call.calls[k].ticker = ticker
        /\ call.calls[k].side = side
        /\ call.calls[k].resp.has_order_id

CancelSentFor(call, oid) ==
    \E k \in 1..Len(call.calls) :
        call.calls[k].kind = "cancel" /\ oid \in call.calls[k].ids

Opposite(a, b) == a.ticker = b.ticker /\ a.side # b.side

\* C1: the bookkeeping never holds, for one instrument, a non-Done BUY order
\* and a non-Done SELL order at the same time.
C1_OrderExclusivity ==
    \A a \in DOMAIN orders, b \in DOMAIN orders :
        (/\ orders[a].state # DONE
         /\ orders[b].state # DONE
         /\ orders[a].ticker = orders[b].ticker)
        => orders[a].side = orders[b].side

\* a pass has just asked for the side opposite to a tracked order's
C1_Witness ==
    /\ last.op = "reconcile"
    /\ \E i \in 1..Len(last.desired), oid \in DOMAIN orders :
          /\ Opposite(orders[oid], last.desired[i])
          /\ last.desired[i].quantity > 0
          /\ orders[oid].state = CANCEL_SENT
          /\ CancelSentFor(last, oid)

\* the orders a flip was requested for: cancelled for the other side
Flipped == {oid \in DOMAIN cancelLog : cancelLog[oid] = "flip"}

\* C3 as claimed: whenever an order is submitted, every order of the other
\* side on the same instrument that a flip was requested for has been
\* observed Done by refresh().
C3_Original ==
    [][\A b \in (DOMAIN venue') \ (DOMAIN venue), a \in Flipped :
          Opposite(venue[a], venue'[b]) => a \in doneLog]_vars

\* C3 amended: whenever an order is submitted, every order of the other side
\* on the same instrument that a flip was requested for has been observed
\* Done by refresh() or was dropped by refresh() as unknown to the venue
\* after the TTL.
C3_FlipAfterDoneOrEvicted ==
    [][\A b \in (DOMAIN venue') \ (DOMAIN venue), a \in Flipped :
          Opposite(venue[a], venue'[b]) => a \in doneLog \cup evicted]_vars

\* a SELL (BUY) was just submitted after the BUY (SELL) whose cancel was sent
\* was observed Done
C3_Witness ==
    /\ last.op = "reconcile"
    /\ \E a \in doneLog \cap Flipped, b \in DOMAIN orders :
          /\ a < b
          /\ Opposite(venue[a], orders[b])
          /\ orders[b].state = SENT
          /\ AcceptedFor(last, orders[b].ticker, orders[b].side)

\* no order was submitted for the instrument of order oid after oid
NoReplacement(v, oid) ==
    \A o \in DOMAIN v : o > oid => v[o].ticker # v[oid].ticker

\* what refresh() must have done with an order the venue reports transacted
LateFillHandled(call, oid) ==
    /\ oid \in DOMAIN call.looped
    /\ call.looped[oid].state = DONE
    /\ call.looped[oid].quantity_filled = venue[oid].quantity_filled
    /\ NoReplacement(venue, oid)

\* C4 as claimed: when the venue reports as transacted an order a cancel was
\* sent for, refresh() sets its filled quantity to the venue's, moves it to
\* Done, and no replacement was submitted since.
C4_Original ==
    [][last'.op = "refresh" =>
          \A oid \in DOMAIN cancelLog :
              (venue[oid].status = TRANSACTED /\ oid \notin last'.hidden
                                              /\ oid \notin doneLog)
              => (LateFillHandled(last', oid) /\ oid \in doneLog')]_vars

\* C4 amended: the same of an order that is still tracked when the venue
\* reports it transacted.
C4_LateFillOfTrackedOrder ==
    [][last'.op = "refresh" =>
          \A oid \in (DOMAIN cancelLog) \cap (DOMAIN orders) :
              (venue[oid].status = TRANSACTED /\ oid \notin last'.hidden)
              => (LateFillHandled(last', oid) /\ oid \in doneLog')]_vars

\* refresh() has just seen the fill of an order in CANCEL_SENT
C4_Witness ==
    /\ last.op = "refresh"
    /\ \E oid \in (DOMAIN cancelLog) \cap DOMAIN last.looped :
          /\ last.looped[oid].t_cancel_sent # NoTime
          /\ last.looped[oid].status = TRANSACTED
          /\ last.looped[oid].state = DONE
          /\ last.looped[oid].quantity_filled = venue[oid].quantity
          /\ oid \notin DOMAIN orders

\* C5: a pass submits no order for an instrument a cancel was sent for less
\* than cancel_cooldown_s ago.
C5_CancelCooldown ==
    [][last'.op = "reconcile" =>
          \A t \in Tickers :
              (lastCancel[t] # NoTime /\ (now - lastCancel[t]) < CancelCooldown)
              => ~PlacedFor(last', t)]_vars

\* C6: an order refresh() finds in none of the venue's lists before the TTL
\* has elapsed stays tracked as it was, and a pass submits nothing for the
\* instrument of a tracked order.
C6_UnknownOrderKept ==
    [][/\ last'.op = "refresh" =>
            \A oid \in DOMAIN orders :
                (Unknown(venue, last'.hidden, oid)
                   /\ (now - orders[oid].t_created) <= UnknownOrderTtl)
                => (oid \in DOMAIN orders' /\ orders'[oid] = orders[oid])
       /\ last'.op = "reconcile" =>
            \A oid \in DOMAIN orders : ~PlacedFor(last', orders[oid].ticker)]_vars

\* refresh() has just kept an order with a cancel sent that the venue did not list
C6_Witness ==
    /\ last.op = "refresh"
    /\ \E oid \in last.hidden \cap DOMAIN orders :
          /\ orders[oid].state = CANCEL_SENT
          /\ orders[oid].t_cancel_sent # NoTime
          /\ (now - orders[oid].t_created) <= UnknownOrderTtl

\* ---------------------------------------------------- passes (SpecMulti)
Rejected(c) == c.kind = "place" /\ ~c.resp.has_order_id

IndexOf(desired, ticker) ==
    CHOOSE i \in 1..Len(desired) : desired[i].ticker = ticker

\* the pass got as far as entry i of desired: no submission for an earlier
\* entry was rejected
Reached(call, i) ==
    \A k \in 1..Len(call.calls) :
        Rejected(call.calls[k]) => i <= IndexOf(call.desired, call.calls[k].ticker)

AcceptedIds(call) ==
    {call.calls[k].resp.order_id :
        k \in {j \in 1..Len(call.calls) :
                 call.calls[j].kind = "place" /\ call.calls[j].resp.has_order_id}}

\* C2 as claimed: a pass that desires the side opposite to a tracked order's
\* sends a cancel for that order and submits nothing for its instrument.
C2_Original ==
    [][last'.op = "reconcile" =>
          \A i \in 1..Len(last'.desired), oid \in DOMAIN orders :
              Opposite(orders[oid], last'.desired[i])
              => (CancelSentFor(last', oid) /\ ~PlacedFor(last', orders[oid].ticker))]_vars

\* C2 amended: such a pass submits nothing for the instrument; it sends the
\* cancel when it gets to the instrument, and sends no cancel for it when
\* the venue's rejection of an earlier instrument's submission ended the pass.
C2_NoSameTickFlip ==
    [][last'.op = "reconcile" =>
          \A i \in 1..Len(last'.desired), oid \in DOMAIN orders :
              Opposite(orders[oid], last'.desired[i])
              => /\ ~PlacedFor(last', orders[oid].ticker)
                 /\ CancelSentFor(last', oid) <=> Reached(last', i)]_vars

\* a pass has just cancelled an order for the other side, submitting nothing
C2_Witness ==
    /\ last.op = "reconcile"
    /\ \E i \in 1..Len(last.desired), oid \in DOMAIN orders :
          /\ Opposite(orders[oid], last.desired[i])
          /\ last.desired[i].quantity > 0
          /\ CancelSentFor(last, oid)
          /\ orders[oid].state = CANCEL_SENT
          /\ orders[oid].t_cancel_sent = now
          /\ open_orders_for_ticker(orders, orders[oid].ticker) = {oid}

C8_GrossAndNetAreRiskLimit ==
    last.op = "reconcile" =>
        \A k \in 1..Len(last.calls) :
            (Rejected(last.calls[k])
               /\ last.calls[k].resp.message \in {GrossLimitMessage, NetLimitMessage})
            => last.outcome = "risk"

\* C9: a response without order_id that is no risk-limit rejection raises an
\* error out of the pass; nothing is tracked for that submission, and the
\* orders tracked before it stay tracked as the pass had left them.
C9_ProtocolError ==
    [][last'.op = "reconcile" =>
          \A k \in 1..Len(last'.calls) :
              (Rejected(last'.calls[k])
                 /\ last'.calls[k].resp.message \notin {GrossLimitMessage, NetLimitMessage})
              => /\ last'.outcome = "error"
                 /\ k = Len(last'.calls)
                 /\ open_orders_for_ticker(orders', last'.calls[k].ticker) = {}
                 /\ DOMAIN orders' = (DOMAIN orders) \cup AcceptedIds(last')
                 /\ \A oid \in AcceptedIds(last') : orders'[oid].state = SENT
                 /\ \A oid \in DOMAIN orders :
                       orders'[oid] = IF CancelSentFor(last', oid)
                                      THEN [orders[oid] EXCEPT !.state = CANCEL_SENT,
                                                               !.t_cancel_sent = now]
                                      ELSE orders[oid]]_vars

\* a pass has just raised on its second submission, keeping the order of
\* its first
C9_Witness ==
    /\ last.op = "reconcile"
    /\ last.outcome = "error"
    /\ Len(last.calls) = 2
    /\ last.calls[1].kind = "place"
    /\ last.calls[1].resp.has_order_id
    /\ last.calls[1].resp.order_id \in DOMAIN orders
    /\ Rejected(last.calls[2])
    /\ open_orders_for_ticker(orders, last.calls[2].ticker) = {}

\* ------------------------------------------------------ queries (SpecBook)
RECURSIVE SumOver(_, _)
SumOver(f, S) ==
    IF S = {} THEN 0
    ELSE LET x == CHOOSE y \in S : TRUE IN f[x] + SumOver(f, S \ {x})

\* sign(side) * max(0, quantity - filled_quantity) over the orders of an
\* instrument that are Sent, Live or CancelSent
Exposure(ords, ticker) ==
    LET live == {oid \in DOMAIN ords : /\ ords[oid].ticker = ticker
                                       /\ ords[oid].state \in {SENT, LIVE, CANCEL_SENT}}
        term == [oid \in live |->
                   (IF ords[oid].side = BUY THEN 1 ELSE -1)
                   * (IF ords[oid].quantity > ords[oid].quantity_filled
                      THEN ords[oid].quantity - ords[oid].quantity_filled ELSE 0)]
    IN  SumOver(term, live)

\* C10: effective_position_adjustments() returns for each instrument the
\* signed remaining quantity of its Sent, Live and CancelSent orders, BUY
\* positive and SELL negative, and changes no state.
C10_EffectivePositionAdjustments ==
    [][last'.op = "adjustments" =>
          /\ \A t \in Tickers : Get(last'.adj, t, 0) = Exposure(orders, t)
          /\ UNCHANGED <<orders, venue, nextId, now, doneLog, evicted, cancelLog,
                         lastCancel>>]_vars

\* the query has just netted a BUY and a SELL of one instrument, one of
\* them filled in part and one with a cancel sent
C10_Witness ==
    /\ last.op = "adjustments"
    /\ \E a \in DOMAIN orders, b \in DOMAIN orders :
          /\ Opposite(orders[a], orders[b])
          /\ orders[a].quantity_filled > 0
          /\ orders[b].state = CANCEL_SENT
          /\ last.adj[orders[a].ticker] = signed_remaining(orders[a]) + signed_remaining(orders[b])
          /\ last.adj[orders[a].ticker] # 0

\* C11: when a pass returns normally, every tracked order of an instrument
\* absent from desired was sent a cancel in that pass and is in CancelSent
\* with its cancel timestamp set.
C11_CancelUndesired ==
    [][(last'.op = "reconcile" /\ last'.outcome \in {"ok", "risk"}) =>
          \A oid \in DOMAIN orders' :
              orders'[oid].ticker \notin DesiredTickers(last'.desired)
              => /\ CancelSentFor(last', oid)
                 /\ orders'[oid].state = CANCEL_SENT
                 /\ orders'[oid].t_cancel_sent = now]_vars

\* a pass has just cancelled the live order of an instrument it was not
\* given, and gone on to the instrument it was given
C11_Witness ==
    /\ last.op = "reconcile"
    /\ last.outcome = "ok"
    /\ Len(last.desired) = 1
    /\ PlacedFor(last, last.desired[1].ticker)
    /\ \E oid \in DOMAIN orders :
          /\ orders[oid].ticker \notin DesiredTickers(last.desired)
          /\ orders[oid].state = CANCEL_SENT
          /\ orders[oid].t_cancel_sent = now
          /\ last.calls[1] = CancelCall({oid})

\* C12: a pass whose desired side for an instrument is the side of every
\* order tracked for it makes no submit and no cancel for the instrument and
\* leaves its tracked orders as they were, whatever the desired quantity.
C12_NoChurn ==
    [][last'.op = "reconcile" =>
          \A i \in 1..Len(last'.desired) :
              LET d  == last'.desired[i]
                  ex == open_orders_for_ticker(orders, d.ticker)
              IN  (ex # {} /\ \A oid \in ex : orders[oid].side = d.side)
                  => /\ ~PlacedFor(last', d.ticker)
                     /\ \A oid \in ex : ~CancelSentFor(last', oid)
                     /\ open_orders_for_ticker(orders', d.ticker) = ex
                     /\ \A oid \in ex : orders'[oid] = orders[oid]]_vars

\* a pass has just left alone a same-side order of another quantity, while
\* calling the venue for the other instrument
C12_Witness ==
    /\ last.op = "reconcile"
    /\ Len(last.calls) > 0
    /\ \E i \in 1..Len(last.desired), oid \in DOMAIN orders :
          /\ orders[oid].ticker = last.desired[i].ticker
          /\ orders[oid].side = last.desired[i].side
          /\ orders[oid].quantity # last.desired[i].quantity
          /\ orders[oid].state = LIVE
          /\ ~PlacedFor(last, orders[oid].ticker)
          /\ ~CancelSentFor(last, oid)

\* ======================================================================
\*                     the allocator (src/allocator.py)
\* ======================================================================
\* Floats are modelled as exact rationals [num, den] in lowest terms with
\* den > 0.  The optimizer's tolerances (1e-15, 1e-12, 1e-9) are far below
\* the resolution of the values drawn here, so a comparison against one of
\* them is the comparison against zero.

\* ---------------------------------------------------------- arithmetic
Abs(x) == IF x < 0 THEN -x ELSE x

RECURSIVE GCD(_, _)
GCD(a, b) == IF b = 0 THEN a ELSE GCD(b, a % b)

\* the float n / d  (d # 0)
Frac(n, d) ==
    LET g == GCD(Abs(n), Abs(d))
        s == IF d < 0 THEN -1 ELSE 1
    IN  [num |-> s * (n \div g), den |-> s * (d \div g)]

\* float(n)
Q(n) == [num |-> n, den |-> 1]

Zero == Q(0)

One == Q(1)

QAdd(a, b) == Frac(a.num * b.den + b.num * a.den, a.den * b.den)

QSub(a, b) == Frac(a.num * b.den - b.num * a.den, a.den * b.den)

QMul(a, b) == Frac(a.num * b.num, a.den * b.den)

\* a / b  (b # 0)
QDiv(a, b) == Frac(a.num * b.den, a.den * b.num)

QNeg(a) == [num |-> -a.num, den |-> a.den]

\* abs(a)
QAbs(a) == [num |-> Abs(a.num), den |-> a.den]

\* a < b
QLt(a, b) == a.num * b.den < b.num * a.den

\* a <= b
QLe(a, b) == a.num * b.den <= b.num * a.den

\* min(a, b)
QMin(a, b) == IF QLe(a, b) THEN a ELSE b

\* max(a, b)
QMax(a, b) == IF QLe(b, a) THEN a ELSE b

\* np.clip(x, lo, hi)
QClip(x, lo, hi) == QMin(QMax(x, lo), hi)

\* sum(f[k] for k in keys), keys a sequence
RECURSIVE QSum(_, _)
QSum(f, keys) ==
    IF keys = <<>> THEN Zero ELSE QAdd(f[Head(keys)], QSum(f, Tail(keys)))

\* the elements of a sequence
Range(s) == {s[i] : i \in 1..Len(s)}

\* -------------------------------------------------- _optimize_weights()
\* A dict of the allocator is a function on its keys; where the order of
\* the keys matters (enumerate, sorted, max) the keys come as a sequence.

NoError == "none"
WMaxError == "ValueError: w_max must be in (0, 1]"
LambdaError == "ValueError: switch_lambda must be >= 0"
HorizonError == "ValueError: horizon_bars must be > 0"

\* names.index(n) + 1
Position(names, n) == CHOOSE i \in 1..Len(names) : names[i] = n

\* mask & (1 << i)
Bit(mask, i) == (mask \div (2 ^ i)) % 2 = 1

\* SortedDesc without reverse=True: ascending
RECURSIVE SortedAsc(_, _)
SortedAsc(names, key) ==
    IF names = <<>> THEN <<>>
    ELSE LET i == CHOOSE i \in 1..Len(names) :
                      /\ \A j \in 1..Len(names) : QLe(key[names[i]], key[names[j]])
                      /\ \A j \in 1..(i - 1) : QLt(key[names[i]], key[names[j]])
         IN  <<names[i]>>
             \o SortedAsc(SubSeq(names, 1, i - 1) \o SubSeq(names, i + 1, Len(names)), key)

\* sorted(names, key=key, reverse=True): descending, equal keys keep
\* their order
RECURSIVE SortedDesc(_, _)
SortedDesc(names, key) ==
    IF names = <<>> THEN <<>>
    ELSE LET i == CHOOSE i \in 1..Len(names) :
                      /\ \A j \in 1..Len(names) : QLe(key[names[j]], key[names[i]])
                      /\ \A j \in 1..(i - 1) : QLt(key[names[j]], key[names[i]])
         IN  <<names[i]>>
             \o SortedDesc(SubSeq(names, 1, i - 1) \o SubSeq(names, i + 1, Len(names)), key)

\* max(names, key=key): the first of the largest
ArgMax(names, key) == Head(SortedDesc(names, key))

\* the greedy fill of one sign pattern, in the order given
RECURSIVE GreedyFill(_, _, _, _)
GreedyFill(order, w, ub, rem) ==
    IF order = <<>> \/ QLe(rem, Zero) THEN [w |-> w, remaining |-> rem]
    ELSE LET n   == Head(order)
             cap == QSub(ub[n], w[n])
             add == IF QLt(cap, rem) THEN cap ELSE rem
         IN  IF QLe(cap, Zero) THEN GreedyFill(Tail(order), w, ub, rem)
             ELSE GreedyFill(Tail(order), [w EXCEPT ![n] = QAdd(@, add)], ub,
                             QSub(rem, add))

\* Objective without the switching penalty
ObjectiveNoPenalty(names, edges, wprev_vec, lam, w) ==
    QSum([n \in Range(names) |-> QMul(w[n], edges[n])], names)

\* obj = sum(w[n] * edges[n] - lam * abs(w[n] - wprev_vec[n]))
Objective(names, edges, wprev_vec, lam, w) ==
    QSum([n \in Range(names) |->
             QSub(QMul(w[n], edges[n]), QMul(lam, QAbs(QSub(w[n], wprev_vec[n]))))],
         names)

\* the body of the loop over mask: the candidate of one sign pattern
Pattern(names, edges, wprev_vec, w_max, lam, mask) ==
    LET N      == Range(names)
        up     == [n \in N |-> Bit(mask, Position(names, n) - 1)]
        lb     == [n \in N |-> IF up[n] THEN wprev_vec[n] ELSE Zero]
        ub     == [n \in N |-> IF up[n] THEN w_max ELSE QMin(w_max, wprev_vec[n])]
        coeff  == [n \in N |-> IF up[n] THEN QSub(edges[n], lam) ELSE QAdd(edges[n], lam)]
        sum_lb == QSum(lb, names)
        sum_ub == QSum(ub, names)
        fill   == GreedyFill(SortedDesc(names, coeff), lb, ub, QSub(One, sum_lb))
    IN  IF QLt(One, sum_lb) \/ QLt(sum_ub, One) \/ fill.remaining # Zero
        THEN [feasible |-> FALSE]
        ELSE [feasible |-> TRUE, w |-> fill.w,
              obj |-> Objective(names, edges, wprev_vec, lam, fill.w)]

\* for mask in range(1 << len(names)), carrying best_obj and best_w
RECURSIVE MaskLoop(_, _, _, _, _, _, _)
MaskLoop(names, edges, wprev_vec, w_max, lam, mask, best) ==
    IF mask = 2 ^ Len(names) THEN best
    ELSE LET p == Pattern(names, edges, wprev_vec, w_max, lam, mask)
         IN  MaskLoop(names, edges, wprev_vec, w_max, lam, mask + 1,
                      IF p.feasible /\ (~best.found \/ QLt(best.obj, p.obj))
                      THEN [found |-> TRUE, obj |-> p.obj, w |-> p.w]
                      ELSE best)

\* wprev clipped at 0 and normalised onto names; uniform when nothing is left
NormalizePrev(names, wprev) ==
    LET N      == Range(names)
        clip   == [n \in N |-> QMax(Zero, Get(wprev, n, Zero))]
        s_prev == QSum(clip, names)
    IN  IF QLt(Zero, s_prev) THEN [n \in N |-> QDiv(clip[n], s_prev)]
        ELSE [n \in N |-> Frac(1, Len(names))]

\* Allocator._optimize_weights(edges, wprev); names = list(edges.keys()).
\* The result is the dict returned, or the error raised.
_optimize_weights(config, names, edges, wprev) ==
    LET N == Range(names) IN
    IF names = <<>> THEN [raised |-> NoError, w |-> EmptyDict]
    ELSE IF \A n \in N : QLe(edges[n], Zero)
    THEN [raised |-> NoError, w |-> [n \in N |-> Zero]]
    ELSE IF QLe(config.w_max, Zero) \/ QLt(One, config.w_max)
    THEN [raised |-> WMaxError, w |-> EmptyDict]
    ELSE IF QLt(config.switch_lambda, Zero)
    THEN [raised |-> LambdaError, w |-> EmptyDict]
    ELSE LET best == MaskLoop(names, edges, NormalizePrev(names, wprev),
                              config.w_max, config.switch_lambda, 0,
                              [found |-> FALSE])
         IN  IF best.found THEN [raised |-> NoError, w |-> best.w]
             ELSE [raised |-> NoError,
                   w |-> [n \in N |-> IF n = ArgMax(names, edges) THEN One ELSE Zero]]

\* -------------------------------------------- AllocatorConfig, Allocator
\* TICKERS, cut down to two instruments
TICKERS == <<"AAA", "BBB">>

\* AllocatorConfig() with amounts scaled down: 4 shares an instrument, a
\* quarter of them an entry tick, twice that on exit, half when throttled.
\* Volatility scaling is off, as in the defaults, with a target of 5 dollars
\* and a halflife of 2 ticks where it is turned on, and horizon_bars = 1
\* makes the EWMA weight alpha = 2 / (horizon_bars + 1) = 1.
DefaultConfig ==
    [gross_limit |-> Q(40), net_limit |-> Q(20),
     max_shares |-> [t \in Range(TICKERS) |-> 4],
     top_n |-> 2, turnover_pct |-> Frac(1, 4), min_threshold |-> Zero,
     horizon_bars |-> 1, switch_lambda |-> Frac(1, 10), regime_cutoff |-> Frac(5, 2),
     w_max |-> One, vol_scale_enabled |-> FALSE,
     target_vol |-> Q(5), vol_halflife |-> 2,
     exit_turnover_mult |-> Q(2),
     dd_throttle_enabled |-> FALSE, dd_throttle_threshold |-> Q(1),
     dd_throttle_factor |-> Frac(1, 2)]

\* Allocator.__init__(config): nothing of the configuration is inspected
Allocator(config) ==
    [config |-> config,
     _prev_pos |-> [t \in Range(TICKERS) |-> Zero],
     _prev_w |-> EmptyDict, _prev_w_keys |-> <<>>,    \* the keys in dict order
     _last_s |-> EmptyDict, _var_s |-> EmptyDict,
     _last_portfolio_value |-> [x \in {"None"} |-> 0], _ewma_var |-> Zero,
     _vol_scale |-> One, _vol_tick_count |-> 0,
     _peak_pnl |-> Zero, _current_pnl |-> Zero, _dd_throttle_active |-> FALSE]

\* the order manager with nothing to do, while the allocator is exercised
NoOrderManager ==
    /\ orders = EmptyDict
    /\ venue = EmptyDict
    /\ nextId = 1
    /\ now = 0
    /\ last = Idle
    /\ doneLog = {}
    /\ evicted = {}
    /\ cancelLog = EmptyDict
    /\ lastCancel = [t \in Tickers |-> NoTime]

omVars == <<orders, venue, nextId, now, last, doneLog, evicted, cancelLog, lastCancel>>

\* ----------------------------------- the optimizer called on its own
\* (src/tests/test_allocator.py calls _optimize_weights directly)
MaxEdge == 4        \* largest edge, in tenths

EdgeValues == {Frac(k, 10) : k \in -1..MaxEdge}

\* previous weights of a name: absent from wprev, or one of these
PrevValues == {Frac(-1, 2), Zero, Frac(1, 2), One}

WMaxValues == {Zero, Frac(2, 5), Frac(1, 2), Frac(3, 4), One, Frac(3, 2)}

LambdaValues == {Frac(-1, 10), Zero, Frac(1, 10)}

Names == <<"A", "B">>

\* the dicts with keys among S and values in V
Dicts(S, V) == UNION {[K -> V] : K \in SUBSET S}

\* the inputs of a call that has not run yet
Pending(op, args) == [op |-> op, done |-> FALSE, args |-> args]

\* Init draws the configuration and the arguments of the call
InitWeights ==
    /\ NoOrderManager
    /\ self \in {Allocator([DefaultConfig EXCEPT !.w_max = w, !.switch_lambda = l]) :
                    w \in WMaxValues, l \in LambdaValues}
    /\ ret \in {Pending("_optimize_weights", [names |-> names, edges |-> edges, wprev |-> wprev]) :
                    names \in {Names, <<"B", "A">>},
                    edges \in [Range(Names) -> EdgeValues],
                    wprev \in Dicts(Range(Names), PrevValues)}

OptimizeWeights ==
    /\ ret.op = "_optimize_weights"
    /\ ~ret.done
    /\ \E r \in {_optimize_weights(self.config, ret.args.names, ret.args.edges,
                                     ret.args.wprev)} :
          ret' = [ret EXCEPT !.done = TRUE] @@ [raised |-> r.raised, w |-> r.w]
    /\ UNCHANGED self
    /\ UNCHANGED omVars

NextWeights == OptimizeWeights

SpecWeights == InitWeights /\ [][NextWeights]_vars

\* ------------------------------------------------------ claims C15..C17
\* _optimize_weights has returned a dict
Optimized ==
    /\ ret.op = "_optimize_weights"
    /\ ret.done
    /\ ret.raised = NoError

\* the previous weights are 1.0 on inc and 0.0 on ch
Incumbent(inc, ch) ==
    /\ inc # ch
    /\ DOMAIN ret.args.wprev = {inc, ch}
    /\ ret.args.wprev[inc] = One
    /\ ret.args.wprev[ch] = Zero

\* all of the weight is on n
AllOn(n) == ret.w = [m \in Range(Names) |-> IF m = n THEN One ELSE Zero]

\* e1 - e0 <= 2 * lambda
WithinThreshold(inc, ch) ==
    QLe(QSub(ret.args.edges[ch], ret.args.edges[inc]),
        QMul(Q(2), self.config.switch_lambda))

\* C15: for two candidates (names that _compute_edges gave an edge, which
\* is positive; one positive edge is enough here) with previous weights 1.0
\* on the incumbent and 0.0 on the challenger and w_max = 1, the optimizer
\* returns 100% on the incumbent whenever e1 - e0 <= 2*lambda (equality
\* included) and 100% on the challenger whenever e1 - e0 > 2*lambda.
C15_SwitchingThreshold ==
    \A inc \in Range(Names), ch \in Range(Names) :
        (/\ Optimized
         /\ Incumbent(inc, ch)
         /\ self.config.w_max = One
         /\ \E n \in Range(Names) : QLt(Zero, ret.args.edges[n]))
        => IF WithinThreshold(inc, ch) THEN AllOn(inc) ELSE AllOn(ch)

\* the equality case: the challenger is ahead by exactly 2*lambda > 0 and
\* the incumbent keeps everything
C15_Witness ==
    /\ Optimized
    /\ Incumbent("A", "B")
    /\ self.config.w_max = One
    /\ self.config.switch_lambda = Frac(1, 10)
    /\ ret.args.edges["A"] = Frac(1, 10)
    /\ ret.args.edges["B"] = Frac(3, 10)
    /\ AllOn("A")

\* the weights _optimize_weights compares against: wprev on the two names
PrevVec == NormalizePrev(ret.args.names, ret.args.wprev)

MaxShares(config, t) == Q(Get(config.max_shares, t, 200000))

\* prices.get(t, 0)
Price(prices, t) == Get(prices, t, Zero)

\* sum(abs(pos.get(t, 0) * prices.get(t, 0)) for t in TICKERS)
GrossExposure(pos, prices) ==
    QSum([t \in Range(TICKERS) |-> QAbs(QMul(Get(pos, t, Zero), Price(prices, t)))],
         TICKERS)

\* sum(pos.get(t, 0) * prices.get(t, 0) for t in TICKERS)
NetExposure(pos, prices) ==
    QSum([t \in Range(TICKERS) |-> QMul(Get(pos, t, Zero), Price(prices, t))], TICKERS)

\* pos[t] *= scale for t in TICKERS
Scale(pos, scale) == [t \in Range(TICKERS) |-> QMul(pos[t], scale)]

\* the share clip and the gross scaling of _project
ClipAndGross(config, pos, prices) ==
    LET clipped == [t \in Range(TICKERS) |->
                       QClip(Get(pos, t, Zero), QNeg(MaxShares(config, t)),
                             MaxShares(config, t))]
        gross   == GrossExposure(clipped, prices)
    IN  IF QLt(config.gross_limit, gross)
        THEN Scale(clipped, QDiv(config.gross_limit, gross))
        ELSE clipped

\* _project without the net scaling
_projectGrossOnly(config, pos, prices) == ClipAndGross(config, pos, prices)

\* Allocator._project(pos, prices)
_project(config, pos, prices) ==
    LET scaled == ClipAndGross(config, pos, prices)
        net    == NetExposure(scaled, prices)
    IN  IF QLt(config.net_limit, QAbs(net))
        THEN Scale(scaled, QDiv(config.net_limit, QAbs(net)))
        ELSE scaled

\* ------------------------------------- the projection called on its own
MaxPos == 5         \* largest holding of an input portfolio, in shares

\* a price that is present: negative, zero or positive
PriceValues == {Q(-5), Zero, Q(5), Q(10)}

\* price maps: an instrument may be missing
PriceMaps == Dicts(Range(TICKERS), PriceValues)

Portfolios == [Range(TICKERS) -> {Q(k) : k \in -MaxPos..MaxPos}]

InitProject ==
    /\ NoOrderManager
    /\ self \in {Allocator([DefaultConfig EXCEPT !.gross_limit = g, !.net_limit = n]) :
                    g \in {Q(15), Q(40)}, n \in {Q(20), Q(50)}}
    /\ ret \in {Pending("_project", [pos |-> pos, prices |-> prices]) :
                    pos \in Portfolios, prices \in PriceMaps}

Project ==
    /\ ret.op = "_project"
    /\ ~ret.done
    /\ ret' = [ret EXCEPT !.done = TRUE]
              @@ [pos |-> _project(self.config, ret.args.pos, ret.args.prices)]
    /\ UNCHANGED self
    /\ UNCHANGED omVars

NextProject == Project

SpecProject == InitProject /\ [][NextProject]_vars

\* ----------------------------------------------------------- claim C13
\* C13: the portfolio _project returns has every instrument's magnitude
\* <= its max_shares, gross exposure <= gross_limit and |net exposure| <=
\* net_limit, all three at once, for every input portfolio and price map.
C13_ConstraintSatisfaction ==
    (ret.op = "_project" /\ ret.done)
    => /\ \A t \in Range(TICKERS) : QLe(QAbs(ret.pos[t]), MaxShares(self.config, t))
       /\ QLe(GrossExposure(ret.pos, ret.args.prices), self.config.gross_limit)
       /\ QLe(QAbs(NetExposure(ret.pos, ret.args.prices)), self.config.net_limit)

\* a portfolio over the share cap, whose clipped gross is over the gross
\* limit and whose gross-scaled net is still over the net limit
C13_Witness ==
    /\ ret.op = "_project"
    /\ ret.done
    /\ \E t \in Range(TICKERS) : QLt(MaxShares(self.config, t), QAbs(ret.args.pos[t]))
    /\ QLt(self.config.net_limit,
           QAbs(NetExposure(ClipAndGross(self.config, ret.args.pos, ret.args.prices),
                            ret.args.prices)))
    /\ QLt(self.config.gross_limit, GrossExposure(ret.args.pos, ret.args.prices))
    /\ QAbs(NetExposure(ret.pos, ret.args.prices)) = self.config.net_limit
    /\ QLt(GrossExposure(ret.pos, ret.args.prices), self.config.gross_limit)

\* -------------------------------------------- turnover cap and flatten
\* current_pos=None, kept apart from every dict by a key no dict has
None == [x \in {"None"} |-> 0]

\* the truth value of an optional dict: None and {} are false
Truthy(dict) == dict # None /\ DOMAIN dict # {}

\* Allocator._cap_turnover(prev, target); a is the allocator (self)
_cap_turnover(a, prev, target) ==
    LET base_pct  == a.config.turnover_pct
        exit_mult == a.config.exit_turnover_mult
        entry_pct == IF a._dd_throttle_active
                     THEN QMul(base_pct, a.config.dd_throttle_factor)
                     ELSE base_pct
    IN  [t \in Range(TICKERS) |->
            LET p         == Get(prev, t, Zero)
                tgt       == Get(target, t, Zero)
                is_exit   == QLt(QAbs(tgt), QAbs(p))
                pct       == IF is_exit THEN QMul(base_pct, exit_mult) ELSE entry_pct
                max_delta == QMul(MaxShares(a.config, t), pct)
            IN  QAdd(p, QClip(QSub(tgt, p), QNeg(max_delta), max_delta))]

\* {t: 0.0 for t in TICKERS}
Flat == [t \in Range(TICKERS) |-> Zero]

\* _flatten that leaves the positions where they are
_flattenHolds(a, current_pos) ==
    IF Truthy(current_pos) THEN current_pos ELSE a._prev_pos

\* Allocator._flatten(current_pos)
_flatten(a, current_pos) ==
    LET prev == IF Truthy(current_pos) THEN current_pos ELSE a._prev_pos
    IN  _cap_turnover(a, prev, Flat)

\* Allocator.sync_positions(actual_pos): the allocator afterwards
sync_positions(a, actual_pos) ==
    [a EXCEPT !._prev_pos = [t \in Range(TICKERS) |-> Get(actual_pos, t, Zero)]]

\* Allocator.update_pnl(current_pnl): the allocator afterwards
update_pnl(a, current_pnl) ==
    LET peak == IF QLt(a._peak_pnl, current_pnl) THEN current_pnl ELSE a._peak_pnl
    IN  [a EXCEPT !._current_pnl = current_pnl,
                  !._peak_pnl = peak,
                  !._dd_throttle_active =
                      IF a.config.dd_throttle_enabled
                      THEN QLt(a.config.dd_throttle_threshold, QSub(peak, current_pnl))
                      ELSE @]

\* sum(current_pos.get(t, 0) * prices.get(t, 0) for t in TICKERS)
PortfolioValue(current_pos, prices) ==
    QSum([t \in Range(TICKERS) |-> QMul(Get(current_pos, t, Zero), Price(prices, t))],
         TICKERS)

\* alpha = 1 - exp(-ln(2) / halflife): one half for a halflife of 1, and
\* 0.29 to the tenth for a halflife of 2
VolAlpha(halflife) == IF halflife = 1 THEN Frac(1, 2) ELSE Frac(3, 10)

\* the largest r in lo..hi-1 with r*r <= n
RECURSIVE SqrtLoop(_, _, _)
SqrtLoop(n, lo, hi) ==
    IF hi - lo <= 1 THEN lo
    ELSE LET mid == (lo + hi) \div 2
         IN  IF mid * mid <= n THEN SqrtLoop(n, mid, hi) ELSE SqrtLoop(n, lo, mid)

\* np.sqrt(ewma_var), rounded down to a quarter
VolSqrt(q) ==
    LET n == 16 * (q.num \div q.den) + (16 * (q.num % q.den)) \div q.den
    IN  Frac(SqrtLoop(n, 0, n + 1), 4)

\* the scale left as computed, without the clamp
VolClipOff(raw_scale) == raw_scale

\* np.clip(raw_scale, 0.25, 1.0)
VolClip(raw_scale) == QClip(raw_scale, Frac(1, 4), One)

\* Allocator._update_vol_scale(current_pos, prices)
_update_vol_scale(a, current_pos, prices) ==
    LET portfolio_value == PortfolioValue(current_pos, prices)
        r            == QSub(portfolio_value, a._last_portfolio_value)
        count        == a._vol_tick_count + 1
        alpha        == VolAlpha(Max(1, a.config.vol_halflife))
        var          == QAdd(QMul(QSub(One, alpha), a._ewma_var), QMul(alpha, QMul(r, r)))
        realized_vol == VolSqrt(var)
        ticked       == [a EXCEPT !._last_portfolio_value = portfolio_value,
                                  !._vol_tick_count = count, !._ewma_var = var]
    IN  IF ~a.config.vol_scale_enabled THEN [a EXCEPT !._vol_scale = One]
        ELSE IF a._last_portfolio_value = None THEN
            IF portfolio_value # Zero
            THEN [a EXCEPT !._last_portfolio_value = portfolio_value, !._vol_tick_count = 1]
            ELSE a
        ELSE IF count < a.config.vol_halflife * 2 THEN [ticked EXCEPT !._vol_scale = One]
        ELSE IF QLt(Zero, realized_vol)
        THEN [ticked EXCEPT !._vol_scale = VolClip(QDiv(a.config.target_vol, realized_vol))]
        ELSE [ticked EXCEPT !._vol_scale = One]

\* ------------------------------------------------------ _compute_edges()
\* Signal(name, s_dollars, entry_dollars, rt_cost_dollars, legs)
Signal(name, s_dollars, entry_dollars, rt_cost_dollars, legs) ==
    [name |-> name, s_dollars |-> s_dollars, entry_dollars |-> entry_dollars,
     rt_cost_dollars |-> rt_cost_dollars, legs |-> legs]

\* Signal.direction
direction(s) ==
    IF QLt(Zero, s.s_dollars) THEN 1 ELSE IF QLt(s.s_dollars, Zero) THEN -1 ELSE 0

\* the integer square root of a perfect square
ISqrt(n) == CHOOSE r \in 0..n : r * r = n

\* np.sqrt(var), exact on the squares of rationals: with alpha = 1 the
\* variance is the square of the last change of the signal
QSqrt(q) == Frac(ISqrt(q.num), ISqrt(q.den))

\* d[k] = v appended to the key order of a dict
PutKey(keys, k) == IF k \in Range(keys) THEN keys ELSE Append(keys, k)

\* the first loop of _compute_edges: EWMA of the squared change per signal.
\* st carries _last_s, _var_s and sigma_hat with the key order of sigma_hat.
RECURSIVE SigmaLoop(_, _, _)
SigmaLoop(signals, alpha, st) ==
    IF signals = <<>> THEN st
    ELSE LET s == Head(signals)
             n == s.name
         IN  IF n \notin DOMAIN st._last_s
             THEN SigmaLoop(Tail(signals), alpha,
                      [st EXCEPT !._last_s = Put(@, n, s.s_dollars),
                                 !._var_s = Put(@, n, Zero),
                                 !.sigma_hat = Put(@, n, Zero),
                                 !.keys = PutKey(@, n)])
             ELSE LET d   == QSub(s.s_dollars, st._last_s[n])
                      var == QAdd(QMul(QSub(One, alpha), Get(st._var_s, n, Zero)),
                                  QMul(alpha, QMul(d, d)))
                  IN  SigmaLoop(Tail(signals), alpha,
                          [st EXCEPT !._last_s = Put(@, n, s.s_dollars),
                                     !._var_s = Put(@, n, var),
                                     !.sigma_hat = Put(@, n, QSqrt(var)),
                                     !.keys = PutKey(@, n)])

\* the keys of a sequence of names that satisfy P, in order
RECURSIVE Filter(_, _)
Filter(keys, keep) ==
    IF keys = <<>> THEN <<>>
    ELSE IF Head(keys) \in keep THEN <<Head(keys)>> \o Filter(Tail(keys), keep)
    ELSE Filter(Tail(keys), keep)

\* the median of the positive sigma_hat values, 0.0 when there is none
MedianSigma(sigma_hat, keys) ==
    LET pos == SortedDesc(Filter(keys, {n \in DOMAIN sigma_hat : QLt(Zero, sigma_hat[n])}),
                          sigma_hat)
        mid == Len(pos) \div 2
    IN  IF pos = <<>> THEN Zero
        ELSE IF Len(pos) % 2 = 1 THEN sigma_hat[pos[mid + 1]]
        ELSE QMul(Frac(1, 2), QAdd(sigma_hat[pos[mid]], sigma_hat[pos[mid + 1]]))

\* the second loop of _compute_edges: e carries edges and its key order
RECURSIVE EdgeLoop(_, _, _, _, _)
EdgeLoop(signals, sigma_hat, median_sigma, regime_cutoff, e) ==
    IF signals = <<>> THEN e
    ELSE LET s     == Head(signals)
             sig   == Get(sigma_hat, s.name, Zero)
             ratio == IF QLt(Zero, median_sigma) THEN QDiv(sig, median_sigma) ELSE Zero
             net   == QSub(QSub(QAbs(s.s_dollars), s.entry_dollars), s.rt_cost_dollars)
             skip  == \/ QLe(sig, Zero)
                      \/ QLt(Zero, median_sigma) /\ QLt(regime_cutoff, ratio)
                      \/ QLe(net, Zero)
         IN  EdgeLoop(Tail(signals), sigma_hat, median_sigma, regime_cutoff,
                      IF skip THEN e
                      ELSE [edges |-> Put(e.edges, s.name, QDiv(net, sig)),
                            keys |-> PutKey(e.keys, s.name)])

\* Allocator._compute_edges(signals): the error raised, or the edges with
\* their key order, sigma_hat and the allocator afterwards
_compute_edges(a, signals) ==
    LET h == a.config.horizon_bars IN
    IF h <= 0 THEN [raised |-> HorizonError, a |-> a]
    ELSE LET alpha == Frac(2, h + 1)
             st    == SigmaLoop(signals, alpha,
                          [_last_s |-> a._last_s, _var_s |-> a._var_s,
                           sigma_hat |-> EmptyDict, keys |-> <<>>])
             e     == EdgeLoop(signals, st.sigma_hat,
                               MedianSigma(st.sigma_hat, st.keys),
                               a.config.regime_cutoff,
                               [edges |-> EmptyDict, keys |-> <<>>])
         IN  [raised |-> NoError, edges |-> e.edges, keys |-> e.keys,
              sigma_hat |-> st.sigma_hat,
              a |-> [a EXCEPT !._last_s = st._last_s, !._var_s = st._var_s]]

\* ------------------------------------------------------------ allocate()
\* Take that keeps the whole list
TakeAll(s, n) == s

\* s[:n]
Take(s, n) ==
    IF n >= 0 THEN SubSeq(s, 1, Min(n, Len(s))) ELSE SubSeq(s, 1, Max(0, Len(s) + n))

\* [s for s in signals if abs(s.s_dollars) >= min_threshold]
RECURSIVE AboveThreshold(_, _)
AboveThreshold(signals, min_threshold) ==
    IF signals = <<>> THEN <<>>
    ELSE IF QLe(min_threshold, QAbs(Head(signals).s_dollars))
    THEN <<Head(signals)>> \o AboveThreshold(Tail(signals), min_threshold)
    ELSE AboveThreshold(Tail(signals), min_threshold)

\* {s.name: s for s in signals}[name]: the last signal of that name
SigByName(signals, name) ==
    signals[SetMax({i \in 1..Len(signals) : signals[i].name = name})]

\* sum(abs(sig.legs.get(t, 0) * prices.get(t, 0)) for t in TICKERS)
UnitGross(sig, prices) ==
    QSum([t \in Range(TICKERS) |-> QAbs(QMul(Get(sig.legs, t, Zero), Price(prices, t)))],
         TICKERS)

\* what one weighted signal adds to pos[t]
Contribution(sig, weight, effective_gross, prices, t) ==
    LET unit_gross == UnitGross(sig, prices)
        units      == QMul(QDiv(QMul(weight, effective_gross), unit_gross),
                           Q(direction(sig)))
    IN  IF QLe(weight, Zero) \/ QLe(unit_gross, Zero) \/ t \notin DOMAIN sig.legs
        THEN Zero
        ELSE QMul(sig.legs[t], units)

\* the loop over w.items(): the gross budget spread over the legs
GrossAllocation(signals, keys, w, effective_gross, prices) ==
    [t \in Range(TICKERS) |->
        QSum([n \in Range(keys) |->
                 Contribution(SigByName(signals, n), w[n], effective_gross, prices, t)],
             keys)]

\* the result of an allocate call: the error raised or the pair returned,
\* the path taken, the allocator afterwards, and the weights, edges and
\* sigma_hat of the tick (_last_diag); projected is the target before the
\* turnover cap
Allocation(raised, target, active, path, a, w, edges, sigma_hat, projected) ==
    [raised |-> raised, target |-> target, active |-> active, path |-> path,
     a |-> a, w |-> w, edges |-> edges, sigma_hat |-> sigma_hat,
     projected |-> projected]

\* allocate() returning self._flatten(current_pos), []
Flatten(a, current_pos) ==
    Allocation(NoError, _flatten(a, current_pos), <<>>, "flatten", a,
               EmptyDict, EmptyDict, EmptyDict, Flat)

\* allocate() left by an exception
Raise(error, a) ==
    Allocation(error, Flat, <<>>, "raise", a, EmptyDict, EmptyDict, EmptyDict, Flat)

\* allocate() from the candidate set on; order is the iteration order of
\* the set `candidates`, which the hash seed of the interpreter decides
AllocateCandidates(a, signals, prices, current_pos, ce, order) ==
    LET top_edge == Take(SortedDesc(ce.keys, ce.edges), a.config.top_n)
        top_prev == Take(SortedDesc(a._prev_w_keys, a._prev_w), a.config.top_n)
        cand     == Filter(order, (Range(top_edge) \cup Range(top_prev)) \cap DOMAIN ce.edges)
        opt      == _optimize_weights(a.config, cand,
                                      [n \in Range(cand) |-> ce.edges[n]],
                                      [n \in Range(cand) |-> Get(a._prev_w, n, Zero)])
        active   == Filter(SortedDesc(cand, opt.w), {n \in Range(cand) : QLt(Zero, opt.w[n])})
        pos      == _project(a.config,
                             GrossAllocation(signals, cand, opt.w,
                                             QMul(a.config.gross_limit, a._vol_scale),
                                             prices),
                             prices)
        prev     == IF Truthy(current_pos) THEN current_pos ELSE Flat
    IN  IF cand = <<>> THEN Flatten(a, current_pos)
        ELSE IF opt.raised # NoError THEN Raise(opt.raised, a)
        ELSE Allocation(NoError, _cap_turnover(a, prev, pos), active, "allocate",
                        [a EXCEPT !._prev_w = opt.w, !._prev_w_keys = cand],
                        opt.w, ce.edges, ce.sigma_hat, pos)

\* Allocator.allocate(signals, prices, current_pos)
allocate(a0, signals0, prices, current_pos, order) ==
    LET a       == IF current_pos # None THEN _update_vol_scale(a0, current_pos, prices)
                   ELSE a0
        signals == AboveThreshold(signals0, a.config.min_threshold)
        ce      == _compute_edges(a, signals)
    IN  IF signals = <<>> THEN Flatten(a, current_pos)
        ELSE IF ce.raised # NoError THEN Raise(ce.raised, a)
        ELSE IF ce.keys = <<>> THEN Flatten(ce.a, current_pos)
        ELSE AllocateCandidates(ce.a, signals, prices, current_pos, ce, order)

\* ------------------------------------------------------------ to_orders()
\* round(q): to the nearest integer, a half to the even one
Round(q) ==
    LET f == q.num \div q.den
        r == QSub(q, Q(f))
    IN  IF QLt(r, Frac(1, 2)) THEN f
        ELSE IF QLt(Frac(1, 2), r) THEN f + 1
        ELSE IF f % 2 = 0 THEN f ELSE f + 1

\* Order(ticker, quantity, action, price)
Order(ticker, quantity, action, price) ==
    [ticker |-> ticker, quantity |-> quantity, action |-> action, price |-> price]

\* Allocator.to_orders(target, current, prices, min_delta)
RECURSIVE OrderLoop(_, _, _, _, _)
OrderLoop(tickers, target, current, prices, min_delta) ==
    IF tickers = <<>> THEN <<>>
    ELSE LET t     == Head(tickers)
             delta == QSub(Get(target, t, Zero), Get(current, t, Zero))
             qty   == Abs(Round(delta))
             price == Price(prices, t)
             rest  == OrderLoop(Tail(tickers), target, current, prices, min_delta)
         IN  IF QLt(QAbs(delta), Q(min_delta)) THEN rest
             ELSE IF QLt(Zero, delta)
             THEN <<Order(t, qty, BUY, QMul(price, Frac(1001, 1000)))>> \o rest
             ELSE <<Order(t, qty, SELL, QMul(price, Frac(999, 1000)))>> \o rest

to_orders(target, current, prices, min_delta) ==
    OrderLoop(TICKERS, target, current, prices, min_delta)

\* ------------------------------------------------ the allocator at work
\* no allocator call was made yet
NoCall == [op |-> "init"]

\* an allocate call and what came of it; prev_w is self._prev_w as the
\* call found it
AllocateCall(signals, prices, current_pos, prev_w, r) ==
    [op |-> "allocate", signals |-> signals, prices |-> prices,
     current_pos |-> current_pos, prev_w |-> prev_w,
     raised |-> r.raised, target |-> r.target, active |-> r.active,
     path |-> r.path, w |-> r.w, edges |-> r.edges, sigma_hat |-> r.sigma_hat,
     projected |-> r.projected]

\* one tick: allocate(signals, prices, current_pos); order is the iteration
\* order of the candidate set
Allocate(signals, prices, current_pos, order) ==
    /\ self # NoAllocator
    /\ ret = NoCall
    /\ \E r \in {allocate(self, signals, prices, current_pos, order)} :
          /\ self' = r.a
          /\ ret' = AllocateCall(signals, prices, current_pos, self._prev_w, r)
    /\ UNCHANGED omVars

\* the caller turns the target of the tick into orders
\* (dashboard: to_orders(target_pos, current_pos, prices, min_delta=1))
ToOrders ==
    /\ ret.op = "allocate"
    /\ ret.raised = NoError
    /\ ret.current_pos # None
    /\ ret' = [ret EXCEPT !.op = "to_orders"]
              @@ [orders |-> to_orders(ret.target, ret.current_pos, ret.prices, 1)]
    /\ UNCHANGED self
    /\ UNCHANGED omVars

\* the tick is over: the caller drops what allocate returned
EndTick ==
    /\ ret.op \in {"allocate", "to_orders"}
    /\ ret' = NoCall
    /\ UNCHANGED self
    /\ UNCHANGED omVars

SyncPositions(actual_pos) ==
    /\ self # NoAllocator
    /\ ret = NoCall
    /\ self' = sync_positions(self, actual_pos)
    /\ UNCHANGED ret
    /\ UNCHANGED omVars

UpdatePnl(current_pnl) ==
    /\ self # NoAllocator
    /\ ret = NoCall
    /\ self' = update_pnl(self, current_pnl)
    /\ UNCHANGED ret
    /\ UNCHANGED omVars

\* ---- inputs
MaxS == 4           \* largest |s_dollars| of a signal

SValues == {Q(-MaxS), Zero, Q(MaxS)}

\* legs of one unit: short AAA, or long AAA against BBB
ShortAAA == [t \in {"AAA"} |-> Q(-1)]

Spread == [t \in {"AAA", "BBB"} |-> IF t = "AAA" THEN One ELSE Q(-1)]

\* the candidate set iterates in either order
Orders2 == {Names, <<"B", "A">>}

\* all instruments at 10 dollars
FullPrices == [t \in {"AAA", "BBB"} |-> Q(10)]

\* ---- signals and weights: full prices, a flat book
\* the signals of a tick: none, A alone, or A and B on the same legs, each
\* entering at 1 or 2 dollars
SignalLists ==
    {<<>>}
    \cup {<<Signal("A", s, One, Zero, ShortAAA)>> : s \in SValues}
    \cup {<<Signal("A", s[1], e[1], Zero, ShortAAA), Signal("B", s[2], e[2], Zero, ShortAAA)>> :
             s \in SValues \X SValues, e \in {One, Q(2)} \X {One, Q(2)}}

\* valid configurations: the default, no switching penalty, and a cap on
\* the weight of one signal
AllocConfigs ==
    {DefaultConfig,
     [DefaultConfig EXCEPT !.switch_lambda = Zero],
     [DefaultConfig EXCEPT !.switch_lambda = Zero, !.w_max = Frac(3, 4)]}

InitAlloc ==
    /\ NoOrderManager
    /\ self \in {Allocator(c) : c \in AllocConfigs}
    /\ ret = NoCall

NextAlloc ==
    \/ \E signals \in SignalLists, order \in Orders2 :
           Allocate(signals, FullPrices, Flat, order)
    \/ ToOrders
    \/ EndTick

SpecAlloc == InitAlloc /\ [][NextAlloc]_vars

\* ----------------------------------------------------------- claim C17
\* allocate has returned a target (ToOrders keeps the record of the call)
Returned == ret.op \in {"allocate", "to_orders"} /\ ret.raised = NoError

\* the tick weighed A and B, hi with the strictly higher edge, on the same
\* sigma_hat and the same legs, without a switching penalty
HigherEdge(hi, lo) ==
    /\ Returned
    /\ ret.path = "allocate"
    /\ self.config.switch_lambda = Zero
    /\ DOMAIN ret.w = {hi, lo}
    /\ hi # lo
    /\ ret.sigma_hat[hi] = ret.sigma_hat[lo]
    /\ SigByName(ret.signals, hi).legs = SigByName(ret.signals, lo).legs
    /\ QLt(ret.edges[lo], ret.edges[hi])

\* the target of the tick had the whole gross budget gone to n
TargetOf(n) ==
    _cap_turnover(self,
        IF Truthy(ret.current_pos) THEN ret.current_pos ELSE Flat,
        _project(self.config,
                 GrossAllocation(ret.signals, <<n>>, [m \in {n} |-> One],
                                 QMul(self.config.gross_limit, self._vol_scale),
                                 ret.prices),
                 ret.prices))

\* C17: with switch_lambda = 0 the signal with the strictly higher edge
\* receives all of the eligible weight, w_max, and the other receives 0,
\* whatever the previous weights, and the target holds only the winner's
\* legs.
C17_WinnerTakesEligible ==
    \A hi \in Range(Names), lo \in Range(Names) :
        HigherEdge(hi, lo)
        => /\ ret.w[hi] = self.config.w_max
           /\ ret.w[lo] = Zero
           /\ ret.target = TargetOf(hi)

\* the winner held all of the weight before the tick and keeps it, above
\* w_max = 3/4
C17_Witness ==
    /\ HigherEdge("A", "B")
    /\ self.config.w_max = Frac(3, 4)
    /\ Get(ret.prev_w, "A", Zero) = One
    /\ ret.w["A"] = One

\* ---- turnover: positions, synced positions and the drawdown throttle
\* one signal on the spread, or none
TurnSignals ==
    {<<>>} \cup {<<Signal("A", s, One, Zero, Spread)>> : s \in SValues}

\* the current positions passed: None, a dict without keys, AAA alone, or
\* both instruments
TurnPositions ==
    {None, EmptyDict, [t \in {"AAA"} |-> Q(3)]}
    \cup [Range(TICKERS) -> {Q(-4), Zero, Q(1), Q(4)}]

\* with and without the drawdown throttle
TurnConfigs == {DefaultConfig, [DefaultConfig EXCEPT !.dd_throttle_enabled = TRUE]}

InitTurnover ==
    /\ NoOrderManager
    /\ self \in {Allocator(c) : c \in TurnConfigs}
    /\ ret = NoCall

NextTurnover ==
    \/ \E signals \in TurnSignals, current_pos \in TurnPositions :
           Allocate(signals, FullPrices, current_pos, Names)
    \/ EndTick
    \/ \E actual_pos \in {Flat, [t \in {"AAA"} |-> Q(4)]} : SyncPositions(actual_pos)
    \/ \E current_pnl \in {Q(-2), Zero, Q(2)} : UpdatePnl(current_pnl)

SpecTurnover == InitTurnover /\ [][NextTurnover]_vars

\* ----------------------------------------------------------- claim C14
\* current_pos[t] of a call that was given a dict
Current(t) == Get(ret.current_pos, t, Zero)

\* the turnover allowance of the tick for t, as a fraction of max_shares:
\* the exit rate when the projected target is smaller in magnitude than the
\* current position, else the entry rate, halved under the throttle
TurnoverPct(t) ==
    IF QLt(QAbs(ret.projected[t]), QAbs(Current(t)))
    THEN QMul(self.config.turnover_pct, self.config.exit_turnover_mult)
    ELSE IF self._dd_throttle_active
    THEN QMul(self.config.turnover_pct, self.config.dd_throttle_factor)
    ELSE self.config.turnover_pct

\* C14: for every allocate call given current positions, on the allocation
\* path and on the flatten paths, and every instrument t,
\* |target[t] - current_pos[t]| <= max_shares[t] * pct, with pct the
\* turnover allowance of the tick for t.
C14_TurnoverBound ==
    (Returned /\ ret.current_pos # None)
    => \A t \in Range(TICKERS) :
           QLe(QAbs(QSub(ret.target[t], Current(t))),
               QMul(MaxShares(self.config, t), TurnoverPct(t)))

\* flatten with an empty current_pos after sync_positions({"AAA": 4}): the
\* target is 2 shares of AAA, from a current position of 0
C14_Witness ==
    /\ Returned
    /\ ret.path = "flatten"
    /\ ret.current_pos = EmptyDict
    /\ self._prev_pos["AAA"] = Q(4)
    /\ ret.target["AAA"] = Q(2)

\* ----------------------------------------------------------- claim C18
\* |s| - entry - rt_cost
NetEdge(s) == QSub(QSub(QAbs(s.s_dollars), s.entry_dollars), s.rt_cost_dollars)

\* every signal of the tick has zero or negative net edge, or is seen by
\* the allocator a for the first time
NoEdge(a, signals) ==
    \A i \in 1..Len(signals) :
        \/ signals[i].name \notin DOMAIN a._last_s
        \/ QLe(NetEdge(signals[i]), Zero)

\* the exit turnover allowance of t, in shares
ExitAllowance(a, t) ==
    QMul(MaxShares(a.config, t),
         QMul(a.config.turnover_pct, a.config.exit_turnover_mult))

\* c moved toward zero by the allowance, stopping at zero
TowardZero(c, allowance) ==
    IF QLe(QAbs(c), allowance) THEN Zero
    ELSE IF QLt(Zero, c) THEN QSub(c, allowance)
    ELSE QAdd(c, allowance)

\* C18: when every signal of the tick has zero or negative net edge or is
\* seen for the first time, allocate called with current positions returns
\* no active signals and, for every instrument, the current position moved
\* toward zero by at most the exit turnover allowance: never away from zero
\* and never across it.
C18_ZeroEdgeFlattening ==
    [][(/\ ret.op = "init"
        /\ ret'.op = "allocate"
        /\ ret'.current_pos # None
        /\ NoEdge(self, ret'.signals))
       => /\ ret'.raised = NoError
          /\ ret'.active = <<>>
          /\ \A t \in Range(TICKERS) :
                 ret'.target[t] =
                     TowardZero(Get(ret'.current_pos, t, Zero), ExitAllowance(self, t))]_vars

\* a first tick of signal A with an empty current_pos after
\* sync_positions({"AAA": 4}): no active signal, and a target of 2 shares
\* of AAA from a current position of 0
C18_Witness ==
    /\ Returned
    /\ ret.path = "flatten"
    /\ Len(ret.signals) = 1
    /\ ret.sigma_hat = EmptyDict
    /\ ret.active = <<>>
    /\ ret.current_pos = EmptyDict
    /\ self._prev_pos["AAA"] = Q(4)
    /\ ret.target["AAA"] = Q(2)

\* ---- configurations: the constructor is handed any AllocatorConfig
\* the default and the degenerate ones: horizon_bars <= 0, w_max outside
\* (0, 1], switch_lambda < 0
AnyConfigs ==
    {DefaultConfig,
     [DefaultConfig EXCEPT !.horizon_bars = 0],
     [DefaultConfig EXCEPT !.horizon_bars = -1],
     [DefaultConfig EXCEPT !.w_max = Zero],
     [DefaultConfig EXCEPT !.w_max = Frac(3, 2)],
     [DefaultConfig EXCEPT !.switch_lambda = Frac(-1, 10)]}

\* Allocator(config)
Construct(config) ==
    /\ self = NoAllocator
    /\ self' = Allocator(config)
    /\ UNCHANGED ret
    /\ UNCHANGED omVars

InitConfig ==
    /\ NoOrderManager
    /\ self = NoAllocator
    /\ ret = NoCall

NextConfig ==
    \/ \E config \in AnyConfigs : Construct(config)
    \/ \E signals \in TurnSignals, current_pos \in {Flat, [t \in {"AAA"} |-> Q(3)]} :
           Allocate(signals, FullPrices, current_pos, Names)
    \/ EndTick

SpecConfig == InitConfig /\ [][NextConfig]_vars

\* ----------------------------------------------------------- claim C19
\* horizon_bars <= 0, w_max outside (0, 1] or switch_lambda < 0
Degenerate(config) ==
    \/ config.horizon_bars <= 0
    \/ QLe(config.w_max, Zero)
    \/ QLt(One, config.w_max)
    \/ QLt(config.switch_lambda, Zero)

\* C19: an Allocator whose configuration has horizon_bars <= 0, w_max
\* outside (0, 1] or switch_lambda < 0 fails when it is constructed: no
\* allocator with such a configuration exists, and no allocate call on one
\* returns a target.
C19_FatalAtConstruction ==
    /\ self # NoAllocator => ~Degenerate(self.config)
    /\ (self # NoAllocator /\ Degenerate(self.config)) => ~Returned

\* allocate on an allocator built with horizon_bars = 0 has returned a
\* target: the position moved toward zero
C19_Witness ==
    /\ self # NoAllocator
    /\ self.config.horizon_bars = 0
    /\ Returned
    /\ ret.current_pos = [t \in {"AAA"} |-> Q(3)]
    /\ ret.target["AAA"] = One

\* ---- prices: the price of BBB is good, missing, zero or negative, or no
\* instrument has a price
TickPrices ==
    {FullPrices,
     [t \in {"AAA"} |-> Q(10)],
     [t \in {"AAA", "BBB"} |-> IF t = "AAA" THEN Q(10) ELSE Zero],
     [t \in {"AAA", "BBB"} |-> IF t = "AAA" THEN Q(10) ELSE Q(-5)],
     EmptyDict}

\* the book is flat or holds one unit of the spread
PricePositions == {Flat, Spread}

InitPrices ==
    /\ NoOrderManager
    /\ self = Allocator(DefaultConfig)
    /\ ret = NoCall

NextPrices ==
    \/ \E signals \in TurnSignals, prices \in TickPrices, current_pos \in PricePositions :
           Allocate(signals, prices, current_pos, Names)
    \/ ToOrders
    \/ EndTick

SpecPrices == InitPrices /\ [][NextPrices]_vars

\* ----------------------------------------------------------- claim C20
\* the price of t is missing or non-positive
BadPrice(prices, t) == t \notin DOMAIN prices \/ QLe(prices[t], Zero)

\* the target of t lies between zero and the current position of t
NoNewExposure(t) ==
    IF QLe(Zero, Current(t))
    THEN QLe(Zero, ret.target[t]) /\ QLe(ret.target[t], Current(t))
    ELSE QLe(Current(t), ret.target[t]) /\ QLe(ret.target[t], Zero)

OrderedTickers == {ret.orders[i].ticker : i \in 1..Len(ret.orders)}

\* C20: allocate never raises because a price is missing or non-positive;
\* an instrument with such a price is skipped for the tick: its target
\* does not move away from its current position, and no order is
\* generated for it.
C20_BadPriceSkipped ==
    /\ ret.op \in {"allocate", "to_orders"} => ret.raised = NoError
    /\ Returned =>
          \A t \in Range(TICKERS) : BadPrice(ret.prices, t) => NoNewExposure(t)
    /\ ret.op = "to_orders" =>
          \A t \in Range(TICKERS) : BadPrice(ret.prices, t) => t \notin OrderedTickers

\* BBB has no price and the book is flat; the tick took a position in BBB
\* and ordered it at price zero
C20_Witness ==
    /\ ret.op = "to_orders"
    /\ "BBB" \notin DOMAIN ret.prices
    /\ ret.current_pos = Flat
    /\ ret.target["BBB"] # Zero
    /\ \E i \in 1..Len(ret.orders) :
          ret.orders[i].ticker = "BBB" /\ ret.orders[i].price = Zero

\* ----------------------------------------------------------- claim C21
\* the state changes of a tracked order along Sent -> Live,
\* Sent/Live -> CancelSent, and any state -> Done
LifecycleStep(from, to) ==
    \/ to = from
    \/ from = SENT /\ to = LIVE
    \/ from \in {SENT, LIVE} /\ to = CANCEL_SENT
    \/ to = DONE

\* C21: over any sequence of submit, cancel, reconcile and refresh, the
\* state of an order that stays tracked changes only along Sent -> Live,
\* Sent/Live -> CancelSent and any of these -> Done (an order in CancelSent
\* never returns to Live or Sent), and an order newly tracked is in Sent.
C21_LifecycleStateMachine ==
    [][/\ \A oid \in (DOMAIN orders) \cap (DOMAIN orders') :
             LifecycleStep(orders[oid].state, orders'[oid].state)
       /\ \A oid \in (DOMAIN orders') \ (DOMAIN orders) :
             orders'[oid].state = SENT]_vars

\* refresh() has found open at the venue an order a cancel was sent for:
\* the order is Live again
C21_Witness ==
    /\ last.op = "refresh"
    /\ \E oid \in DOMAIN orders :
          /\ orders[oid].state = LIVE
          /\ orders[oid].t_cancel_sent # NoTime
          /\ oid \in DOMAIN cancelLog

\* ----------------------------------------------------------- claim C22
\* the refresh() of the step before listed oid as open and left it Live
SeenOpenByLastRefresh(oid) ==
    /\ last.op = "refresh"
    /\ oid \in DOMAIN orders
    /\ oid \notin last.hidden
    /\ orders[oid].state = LIVE

\* C22: refresh() drops an order found in none of the venue's lists only
\* when the venue has not shown it for longer than unknown_order_ttl_s: an
\* order the previous refresh() found open, missing for the first time in
\* a refresh() made at the same time, is not dropped.
C22_TtlFromLastSeen ==
    [][(last'.op = "refresh" /\ now' = now) =>
          \A oid \in DOMAIN orders :
             SeenOpenByLastRefresh(oid) => oid \notin evicted']_vars

\* ----------------------------------------------------------- claim C23
\* the orders accepted by the venue that no refresh() has observed
\* cancelled or transacted
Unresolved(v, done) == {oid \in DOMAIN v : oid \notin done}

\* C23: refresh() leaves every tracked order the venue lists as open Live
\* with the venue's filled quantity, makes every tracked order the venue
\* lists as cancelled or transacted Done with the venue's filled quantity
\* and removes it in the same call; when it returns no tracked order is
\* Done, and the tracked orders are no more than the orders not yet
\* resolved.
C23_BucketReconciliation ==
    [][last'.op = "refresh" =>
          /\ \A oid \in DOMAIN orders :
                /\ oid \in get_orders(venue, last'.hidden, OPEN) =>
                      /\ oid \in DOMAIN orders'
                      /\ orders'[oid].state = LIVE
                      /\ orders'[oid].quantity_filled = venue[oid].quantity_filled
                /\ oid \in get_orders(venue, last'.hidden, CANCELLED)
                           \cup get_orders(venue, last'.hidden, TRANSACTED) =>
                      /\ oid \in DOMAIN last'.looped
                      /\ last'.looped[oid].state = DONE
                      /\ last'.looped[oid].quantity_filled = venue[oid].quantity_filled
                      /\ oid \notin DOMAIN orders'
          /\ \A oid \in DOMAIN orders' : orders'[oid].state # DONE
          /\ Cardinality(DOMAIN orders') <= Cardinality(Unresolved(venue, doneLog'))]_vars

\* refresh() has just found cancelled an order filled in part, and dropped it
C23_Witness ==
    /\ last.op = "refresh"
    /\ \E oid \in DOMAIN last.looped :
          /\ venue[oid].status = CANCELLED
          /\ venue[oid].quantity_filled = 1
          /\ last.looped[oid].state = DONE
          /\ last.looped[oid].quantity_filled = 1
          /\ oid \notin DOMAIN orders

\* ------------------------------------------------ a flip that is held
\* The intent for AAA stays SELL while a BUY is tracked. Every tick calls
\* refresh() and then reconcile_target_orders; the venue lists what it
\* likes in a refresh, but again and again lists everything; it ends the
\* BUY by a cancel or a fill, and accepts every order.
SellAAA == <<[ticker |-> "AAA", side |-> SELL, quantity |-> MaxQty]>>

\* the manager after submit("AAA", BUY, MaxQty, price) was accepted
InitFlip ==
    /\ orders = [oid \in {1} |-> TrackedOrder(1, "AAA", BUY, MaxQty, 0, 0, OPEN)]
    /\ venue = [oid \in {1} |-> VenueOrder("AAA", BUY, MaxQty, Response("open", 1))]
    /\ nextId = 2
    /\ now = 0
    /\ last = Idle
    /\ doneLog = {}
    /\ evicted = {}
    /\ cancelLog = EmptyDict
    /\ lastCancel = [t \in Tickers |-> NoTime]
    /\ self = NoAllocator
    /\ ret = NoAllocator

\* the venue ends order 1: it carries out the cancel or fills the order
VenueResolves ==
    \/ VenueCancel(1)
    \/ VenueFill(1, MaxQty)

NextFlip ==
    \/ Reconcile(SellAAA, <<>>)
    \/ \E hidden \in SUBSET (1..MaxOrders) : Refresh(hidden)
    \/ Tick
    \/ \E oid \in 1..MaxOrders, q \in {1, MaxQty} : VenueFill(oid, q)
    \/ \E oid \in 1..MaxOrders : VenueCancel(oid)

SpecFlip ==
    /\ InitFlip
    /\ [][NextFlip]_vars
    /\ WF_vars(Refresh({}))
    /\ WF_vars(Reconcile(SellAAA, <<>>))
    /\ WF_vars(VenueResolves)

\* ----------------------------------------------------------- claim C30
BuyTracked == \E oid \in DOMAIN orders : orders[oid].ticker = "AAA" /\ orders[oid].side = BUY

SellTracked == \E oid \in DOMAIN orders : orders[oid].ticker = "AAA" /\ orders[oid].side = SELL

\* C30: while a BUY is tracked for an instrument and the intent stays SELL
\* with a positive quantity, with refresh() and reconcile_target_orders
\* called again and again, the venue ending the BUY and accepting orders,
\* a SELL for the instrument is eventually submitted and tracked.
C30_FlipCompletes == BuyTracked ~> SellTracked

\* the pass has just submitted the SELL, the BUY having been observed
\* cancelled or transacted by a refresh()
C30_Witness ==
    /\ last.op = "reconcile"
    /\ 1 \in doneLog
    /\ venue[1].side = BUY
    /\ \E oid \in DOMAIN orders :
          /\ orders[oid].side = SELL
          /\ orders[oid].state = SENT
    /\ 1 \in DOMAIN cancelLog
    /\ cancelLog[1] = "flip"

\* ----------------------------------------------------------- claim C24
SomeEdgePositive == \E n \in Range(Names) : QLt(Zero, ret.args.edges[n])

\* C24: whenever some candidate edge is positive, the weights
\* _optimize_weights returns sum to 1 and each lies between 0 and w_max.
C24_WeightFeasibility ==
    (Optimized /\ SomeEdgePositive) =>
        /\ QSum(ret.w, Names) = One
        /\ \A n \in Range(Names) :
              QLe(Zero, ret.w[n]) /\ QLe(ret.w[n], self.config.w_max)

\* w_max = 3/4, both edges positive, the previous weight all on A: the
\* optimizer has returned weight 1 on A
C24_Witness ==
    /\ Optimized
    /\ self.config.w_max = Frac(3, 4)
    /\ \A n \in Range(Names) : QLt(Zero, ret.args.edges[n])
    /\ ret.args.wprev = [n \in Range(Names) |-> IF n = "A" THEN One ELSE Zero]
    /\ ret.w["A"] = One

\* ----------------------------------------------------------- claim C25
\* the weight the allocator gave n on the previous tick, 0 if it had none
RawPrev == [n \in Range(Names) |-> Get(ret.args.wprev, n, Zero)]

\* previous weights an allocator can hold: none negative, at most 1 in all
PrevIsWeights ==
    /\ \A n \in Range(Names) : QLe(Zero, RawPrev[n])
    /\ QLe(QSum(RawPrev, Names), One)

\* sum(w) = 1 and 0 <= w[n] <= w_max
Feasible(w) ==
    /\ QSum(w, Names) = One
    /\ \A n \in Range(Names) : QLe(Zero, w[n]) /\ QLe(w[n], self.config.w_max)

\* the weight vectors on two names that sum to 1, the weight of A at a
\* bound or at a kink of the objective for the previous weights prev
Vertices(prev) ==
    {[n \in Range(Names) |-> IF n = "A" THEN x ELSE QSub(One, x)] :
        x \in {Zero, One, self.config.w_max, QSub(One, self.config.w_max),
               prev["A"], QSub(One, prev["B"])}}

\* sum_i w_i*edge_i - lambda*sum_i |w_i - prev_i|
ObjectiveOn(prev, w) ==
    Objective(Names, ret.args.edges, prev, self.config.switch_lambda, w)

\* C25: the weights _optimize_weights returns are feasible and no feasible
\* weight vector has a strictly higher value of
\* sum_i w_i*edge_i - lambda*sum_i |w_i - wprev_i|, wprev_i being the weight
\* of signal i on the previous tick, 0 if it had none.
C25_WeightOptimality ==
    (Optimized /\ SomeEdgePositive /\ PrevIsWeights) =>
        /\ Feasible(ret.w)
        /\ \A v \in Vertices(RawPrev) :
              Feasible(v) => QLe(ObjectiveOn(RawPrev, v), ObjectiveOn(RawPrev, ret.w))

\* no previous weights, w_max = 1, lambda = 1/10, edges 3/10 on A and 4/10
\* on B: the optimizer has returned one half on each, worth 1/4 against the
\* 3/10 of all on B
C25_Witness ==
    /\ Optimized
    /\ self.config.w_max = One
    /\ self.config.switch_lambda = Frac(1, 10)
    /\ ret.args.wprev = EmptyDict
    /\ ret.args.edges = [n \in Range(Names) |-> IF n = "A" THEN Frac(3, 10) ELSE Frac(4, 10)]
    /\ ret.w = [n \in Range(Names) |-> Frac(1, 2)]
    /\ ObjectiveOn(RawPrev, ret.w) = Frac(1, 4)
    /\ ObjectiveOn(RawPrev, [n \in Range(Names) |-> IF n = "B" THEN One ELSE Zero]) = Frac(3, 10)

\* ---- candidates: top_n = 1, so that the cut by edge and the cut by
\* previous weight both bite on two signals
CandConfigs ==
    {[DefaultConfig EXCEPT !.top_n = 1],
     [DefaultConfig EXCEPT !.top_n = 1, !.switch_lambda = Zero]}

\* the signals of a tick: as before, or B alone
CandSignalLists ==
    SignalLists \cup {<<Signal("B", s, One, Zero, ShortAAA)>> : s \in SValues}

InitCandidates ==
    /\ NoOrderManager
    /\ self \in {Allocator(c) : c \in CandConfigs}
    /\ ret = NoCall

NextCandidates ==
    \/ \E signals \in CandSignalLists, order \in Orders2 :
           Allocate(signals, FullPrices, Flat, order)
    \/ EndTick

SpecCandidates == InitCandidates /\ [][NextCandidates]_vars

\* ----------------------------------------------------------- claim C26
\* the sets of n keys of f (all of them if there are fewer) with the
\* highest values
TopSets(f, n) ==
    {S \in SUBSET DOMAIN f :
        /\ Cardinality(S) = Min(n, Cardinality(DOMAIN f))
        /\ \A s \in S, t \in (DOMAIN f) \ S : QLe(f[t], f[s])}

\* the tick reached the weight optimizer
OptimizerCalled == ret.op = "allocate" /\ ret.raised = NoError /\ ret.path = "allocate"

\* the names the optimizer was given
Candidates == DOMAIN ret.w

MaxVolTicks == 4    \* ticks counted by the volatility tracker

VolConfigs ==
    {DefaultConfig}
    \cup {[DefaultConfig EXCEPT !.vol_scale_enabled = TRUE, !.vol_halflife = h] : h \in 0..2}

\* the current positions passed: none, flat, or AAA long or short
VolPositions == {None, Flat} \cup {[t \in {"AAA"} |-> Q(k)] : k \in {-1, 1, 2}}

InitVol ==
    /\ NoOrderManager
    /\ self \in {Allocator(c) : c \in VolConfigs}
    /\ ret = NoCall

NextVol ==
    \/ \E signals \in TurnSignals, current_pos \in VolPositions :
           /\ self._vol_tick_count < MaxVolTicks
           /\ Allocate(signals, FullPrices, current_pos, Names)
    \/ EndTick

SpecVol == InitVol /\ [][NextVol]_vars

\* ----------------------------------------------------------- claim C27
\* the gross budget of the tick: gross_limit * _vol_scale
EffectiveGross == QMul(self.config.gross_limit, self._vol_scale)

\* C27: after any sequence of allocate calls the vol-scale factor lies in
\* [0.25, 1.0], is 1.0 when volatility scaling is disabled and while fewer
\* than 2*vol_halflife ticks were counted, and the effective gross budget
\* is at most gross_limit.
C27_VolScaleShrinksOnly ==
    self # NoAllocator =>
        /\ QLe(Frac(1, 4), self._vol_scale)
        /\ QLe(self._vol_scale, One)
        /\ ~self.config.vol_scale_enabled => self._vol_scale = One
        /\ self._vol_tick_count < 2 * self.config.vol_halflife => self._vol_scale = One
        /\ QLe(EffectiveGross, self.config.gross_limit)

\* past the warm-up of 4 ticks, allocate has set a scale strictly between
\* the two bounds
C27_Witness ==
    /\ ret.op = "allocate"
    /\ self.config.vol_scale_enabled
    /\ self.config.vol_halflife = 2
    /\ self._vol_tick_count >= 4
    /\ QLt(Frac(1, 4), self._vol_scale)
    /\ QLt(self._vol_scale, One)
    /\ QLt(EffectiveGross, self.config.gross_limit)

\* ---- flattening: the target of a tick is the current position of the next
\* the exit allowance is 2 shares a tick, or half a share
FlattenConfigs ==
    {DefaultConfig,
     [DefaultConfig EXCEPT !.exit_turnover_mult = Frac(1, 2)],
     [DefaultConfig EXCEPT !.dd_throttle_enabled = TRUE]}

\* the portfolio the first tick is given
StartCall(portfolio) == [op |-> "start", target |-> portfolio]

\* a starting portfolio within the share caps
InitFlatten ==
    /\ NoOrderManager
    /\ self \in {Allocator(c) : c \in FlattenConfigs}
    /\ ret \in {StartCall(p) : p \in [Range(TICKERS) -> {Q(k) : k \in -4..4}]}

\* allocate(signals, prices, current_pos) with the target returned last as
\* current_pos, on a tick whose signals have no edge
FeedBack(signals) ==
    /\ ret.op \in {"start", "allocate"}
    /\ NoEdge(self, signals)
    /\ \E r \in {allocate(self, signals, FullPrices, ret.target, Names)} :
          /\ self' = r.a
          /\ ret' = AllocateCall(signals, FullPrices, ret.target, self._prev_w, r)
    /\ UNCHANGED omVars

\* the drawdown the caller reports between ticks
NextFlatten ==
    \/ \E signals \in TurnSignals : FeedBack(signals)
    \/ \E current_pnl \in {Q(-2), Zero} :
          /\ self' = update_pnl(self, current_pnl)
          /\ UNCHANGED ret
          /\ UNCHANGED omVars

\* a tick with these signals would change the state
FeedBackMoves(signals) ==
    /\ ret.op \in {"start", "allocate"}
    /\ NoEdge(self, signals)
    /\ \E r \in {allocate(self, signals, FullPrices, ret.target, Names)} :
          \/ r.a # self
          \/ AllocateCall(signals, FullPrices, ret.target, self._prev_w, r) # ret

\* no tick would change the state: ~ENABLED <<FeedBack>>_vars as a state
\* predicate
Quiescent == ~ \E signals \in TurnSignals : FeedBackMoves(signals)

\* ticks keep coming: the weak fairness of the tick,
\* WF_vars(\E signals \in TurnSignals : FeedBack(signals)), written out as
\* []<>~ENABLED <<A>>_vars \/ []<><<A>>_vars
SpecFlatten ==
    /\ InitFlatten
    /\ [][NextFlatten]_vars
    /\ \/ []<>Quiescent
       \/ []<><<\E signals \in TurnSignals : FeedBack(signals)>>_vars

\* ----------------------------------------------------------- claim C28
\* C28: when every tick has only signals without edge and is given the
\* target of the tick before as current positions, then from any starting
\* portfolio within the share caps the target is all zeros after finitely
\* many ticks and stays all zeros.
C28_FlatteningTerminates == <>[](ret.op = "allocate" /\ ret.target = Flat)

\* the tick that ends the flattening: from half a share of AAA to zero
C28_Witness ==
    /\ ret.op = "allocate"
    /\ ret.path = "flatten"
    /\ ret.current_pos["AAA"] = Frac(1, 2)
    /\ ret.target = Flat

\* ---- the risk limits after the turnover cap
\* AAA at 10 dollars, BBB at 5
SkewPrices == [t \in {"AAA", "BBB"} |-> IF t = "AAA" THEN Q(10) ELSE Q(5)]

\* the default limits, a tight net limit, and exits slower than entries
LimitConfigs ==
    {DefaultConfig,
     [DefaultConfig EXCEPT !.net_limit = Q(5)],
     [DefaultConfig EXCEPT !.exit_turnover_mult = Frac(1, 2)]}

\* books of both instruments, in steps of two shares
LimitPositions == [Range(TICKERS) -> {Q(-4), Q(-2), Zero, Q(2), Q(4)}]

\* every magnitude within max_shares, gross within gross_limit and net
\* within net_limit, as _project measures them
WithinLimits(config, pos, prices) ==
    /\ \A t \in Range(TICKERS) : QLe(QAbs(Get(pos, t, Zero)), Q(config.max_shares[t]))
    /\ QLe(GrossExposure(pos, prices), config.gross_limit)
    /\ QLe(QAbs(NetExposure(pos, prices)), config.net_limit)

InitLimits ==
    /\ NoOrderManager
    /\ self \in {Allocator(c) : c \in LimitConfigs}
    /\ ret = NoCall

NextLimits ==
    \/ \E signals \in TurnSignals, prices \in {FullPrices, SkewPrices},
          current_pos \in LimitPositions :
           /\ WithinLimits(self.config, current_pos, prices)
           /\ Allocate(signals, prices, current_pos, Names)
    \/ EndTick

SpecLimits == InitLimits /\ [][NextLimits]_vars

\* ----------------------------------------------------------- claim C29
\* C29: when the current positions passed to allocate have every magnitude
\* within max_shares, gross exposure within gross_limit and net exposure
\* within net_limit at the prices of the tick, the returned target has them
\* too.
C29_TargetWithinLimits ==
    (ret.op = "allocate" /\ WithinLimits(self.config, ret.current_pos, ret.prices))
        => WithinLimits(self.config, ret.target, ret.prices)

\* a flattening tick from a book within the limits whose target has a net
\* exposure beyond net_limit
C29_Witness ==
    /\ ret.op = "allocate"
    /\ ret.path = "flatten"
    /\ WithinLimits(self.config, ret.current_pos, ret.prices)
    /\ QLt(self.config.net_limit, QAbs(NetExposure(ret.target, ret.prices)))

====
